---- MODULE Spec2Model ----
(***************************************************************************)
(* A model of the VerilogLinter pipeline: the lexer (Lexer.cpp), the       *)
(* recursive-descent parser (Parser.cpp), the number parser and expression *)
(* evaluator and the linter passes (Linter.cpp), and main (main.cpp).      *)
(*                                                                         *)
(* Text is a sequence of one-character strings, so that the lexer, the     *)
(* number parser and the "STATE" substring test work on characters.        *)
(* Unsigned integers are little-endian sequences of 16-bit limbs           *)
(* (uint32_t: 2 limbs, uint64_t: 4 limbs), so that C++ wrap-around is      *)
(* computed and not assumed away.                                          *)
(***************************************************************************)
EXTENDS Integers, Sequences, FiniteSets, TLC

\* v bound to a name for the expression K: a local variable of the code
With(v, K(_)) == K(v)

(***************************************************************************)
(* Fixed-width unsigned arithmetic (uint32_t / uint64_t).                  *)
(***************************************************************************)
LimbBase == 2^16
U32Limbs == 32 \div 16
U64Limbs == 64 \div 16

Limbs(x, n) ==
    [i \in 1..n |-> IF i = 1 THEN x % LimbBase
                    ELSE IF i = 2 THEN (x \div LimbBase) % LimbBase
                    ELSE 0]
U32(x) == Limbs(x, U32Limbs)
U64(x) == Limbs(x, U64Limbs)

IsZero(a) == \A i \in 1..Len(a) : a[i] = 0

RECURSIVE CarryIn(_, _, _)
CarryIn(a, b, i) ==
    IF i = 1 THEN 0 ELSE (a[i-1] + b[i-1] + CarryIn(a, b, i-1)) \div LimbBase

\* a + b modulo 2^(16 * Len(a))
WrapAdd(a, b) == [i \in 1..Len(a) |-> (a[i] + b[i] + CarryIn(a, b, i)) % LimbBase]

RECURSIVE BorrowIn(_, _, _)
BorrowIn(a, b, i) ==
    IF i = 1 THEN 0
    ELSE IF a[i-1] - b[i-1] - BorrowIn(a, b, i-1) < 0 THEN 1 ELSE 0

\* a - b modulo 2^(16 * Len(a))
WrapSub(a, b) ==
    [i \in 1..Len(a) |-> (a[i] - b[i] - BorrowIn(a, b, i) + LimbBase) % LimbBase]

\* a < b, as unsigned integers of the same width
Less(a, b) == BorrowIn(a, b, Len(a) + 1) = 1

Max(a, b) == IF Less(a, b) THEN b ELSE a

RECURSIVE MulCarry(_, _, _, _)
MulCarry(a, m, d, i) ==
    IF i = 1 THEN d ELSE (a[i-1] * m + MulCarry(a, m, d, i-1)) \div LimbBase

\* a * m + d for a small multiplier m and digit d: the wrapped value and
\* whether the exact value needs more limbs
MulAdd(a, m, d) ==
    [val |-> [i \in 1..Len(a) |-> (a[i] * m + MulCarry(a, m, d, i)) % LimbBase],
     ovf |-> MulCarry(a, m, d, Len(a) + 1) > 0]

\* the low w bits of a
MaskBits(a, w) ==
    [i \in 1..Len(a) |->
        IF w >= 16 * i THEN a[i]
        ELSE IF w <= 16 * (i - 1) THEN 0
        ELSE a[i] % (2^(w - 16 * (i - 1)))]

AllOnes(n) == [i \in 1..n |-> LimbBase - 1]

\* uint64_t -> uint32_t narrowing, uint32_t -> uint64_t widening
Narrow32(a) == SubSeq(a, 1, U32Limbs)
Widen64(a) == [i \in 1..U64Limbs |-> IF i <= Len(a) THEN a[i] ELSE 0]

\* a >= n for a small n (n < 2^16)
AtLeast(a, n) == (\E i \in 2..Len(a) : a[i] # 0) \/ a[1] >= n

RECURSIVE RemAt(_, _)
RemAt(a, i) ==
    IF i > Len(a) THEN 0 ELSE (RemAt(a, i + 1) * LimbBase + a[i]) % 10

DivTen(a) == [i \in 1..Len(a) |-> (RemAt(a, i + 1) * LimbBase + a[i]) \div 10]

RECURSIVE DecimalDigits(_)
DecimalDigits(a) ==
    IF IsZero(a) THEN "" ELSE DecimalDigits(DivTen(a)) \o ToString(RemAt(a, 1))

\* std::to_string of an unsigned value
to_string(a) == IF IsZero(a) THEN "0" ELSE DecimalDigits(a)

(***************************************************************************)
(* Text helpers.                                                           *)
(***************************************************************************)
RECURSIVE Str(_)
\* the characters of a string_view as one string (operator<< / std::string)
Str(chars) == IF chars = <<>> THEN "" ELSE Head(chars) \o Str(Tail(chars))

\* a search that looks for the pattern at the start of the text only
ContainsAtStart(chars, pat) ==
    Len(chars) >= Len(pat) /\ SubSeq(chars, 1, Len(pat)) = pat

\* std::string_view::find of a pattern: TRUE when it occurs
Contains(chars, pat) ==
    \E i \in 1..(Len(chars) - Len(pat) + 1) : SubSeq(chars, i, i + Len(pat) - 1) = pat

LowerChars == <<"a","b","c","d","e","f","g","h","i","j","k","l","m",
                "n","o","p","q","r","s","t","u","v","w","x","y","z">>
UpperChars == <<"A","B","C","D","E","F","G","H","I","J","K","L","M",
                "N","O","P","Q","R","S","T","U","V","W","X","Y","Z">>
DigitChars == <<"0","1","2","3","4","5","6","7","8","9">>

IndexIn(c, seq) == IF \E i \in 1..Len(seq) : seq[i] = c
                   THEN CHOOSE i \in 1..Len(seq) : seq[i] = c
                   ELSE 0

\* the value std::from_chars gives a character as a digit (36 when it is none)
DigitValue(c) ==
    With(IndexIn(c, DigitChars \o LowerChars \o UpperChars),
         LAMBDA i : IF i = 0 THEN 36
                    ELSE IF i <= 36 THEN i - 1
                    ELSE i - 27)

RECURSIVE FromCharsLoop(_, _, _, _, _, _)
FromCharsLoop(chars, i, base, acc, ovf, n) ==
    IF i > Len(chars) THEN [count |-> i - 1, val |-> acc, ovf |-> ovf]
    ELSE With(DigitValue(chars[i]), LAMBDA d :
            IF d >= base THEN [count |-> i - 1, val |-> acc, ovf |-> ovf]
            ELSE With(MulAdd(acc, base, d), LAMBDA step :
                    IF step.ovf
                    THEN FromCharsLoop(chars, i + 1, base, step.val, TRUE, n)
                    ELSE FromCharsLoop(chars, i + 1, base, step.val, ovf, n)))

\* std::from_chars for an unsigned type of n limbs: the longest prefix of
\* digits of the base is converted; no digit at all, or a value that does
\* not fit, is an error and leaves the target unmodified
from_chars(chars, base, n) ==
    With(FromCharsLoop(chars, 1, base, Limbs(0, n), FALSE, n),
         LAMBDA r : [error |-> r.count = 0 \/ r.ovf, val |-> r.val])

(***************************************************************************)
(* Number parser: parse_verilog_number.                                    *)
(***************************************************************************)
\* std::string_view::find('\''): the 1-based place of the first apostrophe,
\* 0 for npos
TickPosition(input_string) == IndexIn("'", input_string)

\* the base the character after the apostrophe selects (decimal otherwise)
BaseOf(base_character) ==
    IF base_character \in {"h", "H"} THEN 16
    ELSE IF base_character \in {"b", "B"} THEN 2
    ELSE IF base_character \in {"o", "O"} THEN 8
    ELSE 10

StripUnderscores(chars) == SelectSeq(chars, LAMBDA c : c # "_")

RECURSIVE BinaryLoop(_, _, _, _)
\* the manual base-2 accumulator over the characters lo..hi, the loop taken
\* by halves: (value << 1) | bit, wrapping silently; the first character
\* that is not 0 or 1 ends it
BinaryLoop(chars, lo, hi, acc) ==
    IF lo > hi THEN [ok |-> TRUE, val |-> acc]
    ELSE IF lo = hi
    THEN IF chars[lo] \in {"0", "1"}
         THEN With(MulAdd(acc, 2, DigitValue(chars[lo])), LAMBDA step :
                \* the bit shifted out of the 64 is lost
                CASE step.ovf \in BOOLEAN -> [ok |-> TRUE, val |-> step.val])
         ELSE [ok |-> FALSE, val |-> acc]
    ELSE With(BinaryLoop(chars, lo, (lo + hi) \div 2, acc), LAMBDA left :
            IF left.ok
            THEN BinaryLoop(chars, ((lo + hi) \div 2) + 1, hi, left.val)
            ELSE left)

NoConstant == [ok |-> FALSE]
ConstantValue(value, width) ==
    [ok |-> TRUE, numeric_value |-> value, bit_width_size |-> width]

\* the bit width before the apostrophe at tick (32 when there is none, or
\* when from_chars fails and leaves the default)
ParsedBitWidth(input_string, tick) ==
    IF tick <= 1 THEN U32(32)
    ELSE With(from_chars(SubSeq(input_string, 1, tick - 1), 10, U32Limbs),
              LAMBDA conv : IF conv.error THEN U32(32) ELSE conv.val)

\* the digits, converted in the base, with the width already parsed
ParseDigits(cleaned_value_string, numeric_base, parsed_bit_width) ==
    IF numeric_base = 2
    THEN With(BinaryLoop(cleaned_value_string, 1, Len(cleaned_value_string), U64(0)), LAMBDA r :
            IF r.ok THEN ConstantValue(r.val, parsed_bit_width) ELSE NoConstant)
    ELSE With(from_chars(cleaned_value_string, numeric_base, U64Limbs), LAMBDA r :
            IF r.error THEN NoConstant ELSE ConstantValue(r.val, parsed_bit_width))

parse_verilog_number(input_string) ==
    IF input_string = <<>> THEN NoConstant
    ELSE With(TickPosition(input_string), LAMBDA tick :
            IF tick = 0
            THEN ParseDigits(StripUnderscores(input_string), 10, U32(32))
            ELSE IF tick >= Len(input_string) THEN NoConstant
            ELSE ParseDigits(
                     StripUnderscores(
                         SubSeq(input_string, tick + 2, Len(input_string))),
                     BaseOf(input_string[tick + 1]),
                     ParsedBitWidth(input_string, tick)))

(***************************************************************************)
(* The AST (Parser.h).  An optional is a sequence of length 0 or 1.        *)
(***************************************************************************)
Identifier(name) == [k |-> "Identifier", identifier_name |-> name]
Number(text) == [k |-> "Number", numeric_value_string |-> text]
BinaryExpression(op, l, r) ==
    [k |-> "BinaryExpression", operator_symbol |-> op,
     left_expression |-> l, right_expression |-> r]

NonBlockingAssignment(lhs, rhs) ==
    [k |-> "NonBlockingAssignment",
     left_hand_side_expression |-> lhs, right_hand_side_expression |-> rhs]
IfStatement(c, t, f) ==
    [k |-> "IfStatement", condition_expression |-> c,
     true_branch_statement |-> t, false_branch_statement |-> f]
BlockStatement(stmts) == [k |-> "BlockStatement", contained_statements |-> stmts]
CaseStatement(c, branches, d) ==
    [k |-> "CaseStatement", condition_expression |-> c,
     case_branches |-> branches, default_branch_statement |-> d]

Sensitivity(edge, name) ==
    [edge_trigger_type |-> edge, signal_identifier |-> Identifier(name)]
AlwaysBlock(sens, body) == [sensitivity_list |-> sens, body_statement |-> body]

\* a test of the first sensitivity entry only
FirstEntryIsLevel(always_block) ==
    \/ Len(always_block.sensitivity_list) = 0
    \/ always_block.sensitivity_list[1].edge_trigger_type = "None"

is_combinational_block(always_block) ==
    \A i \in 1..Len(always_block.sensitivity_list) :
        always_block.sensitivity_list[i].edge_trigger_type = "None"

BitRange(msb, lsb) == [most_significant_bit |-> msb, least_significant_bit |-> lsb]
Port(dir, isreg, range, name) ==
    [direction |-> dir, is_register_type |-> isreg, bit_range |-> range,
     port_name |-> name]
Parameter(name, value) ==
    [parameter_name |-> name, default_value_expression |-> value]
Module(name, params, ports, items) ==
    [module_name |-> name, module_parameters |-> params,
     module_ports |-> ports, module_items |-> items]

(***************************************************************************)
(* Expression evaluator: evaluate_expression_properties.                   *)
(* The result carries the violations report_violation appended on the way. *)
(***************************************************************************)
ExpressionResult(value, width, reported) ==
    [statically_evaluated_value |-> value, bit_width_size |-> width,
     reported |-> reported]

\* the outcomes a build gives 1ULL << n for n >= 64 (undefined behaviour):
\* the count taken modulo 64, or a result of 0
ShiftOutcomes == {"mod64", "zero"}

\* v & ((1ULL << result_width) - 1)
MaskToWidth(v, result_width, shift_outcome) ==
    IF ~AtLeast(result_width, 64) THEN MaskBits(v, result_width[1])
    ELSE IF shift_outcome = "mod64" THEN MaskBits(v, result_width[1] % 64)
    ELSE v

\* a result width without the carry bit of + and -
ResultWidthWithoutCarry(op, lw, rw) ==
    IF Str(op) = "*" THEN WrapAdd(lw, rw)
    ELSE IF Str(op) = "==" THEN U32(1)
    ELSE Max(lw, rw)

ResultWidth(op, lw, rw) ==
    LET operand_width == Max(lw, rw)
    IN  IF Str(op) \in {"+", "-"} THEN WrapAdd(operand_width, U32(1))
        ELSE IF Str(op) = "*" THEN WrapAdd(lw, rw)
        ELSE IF Str(op) = "==" THEN U32(1)
        ELSE operand_width

\* the BinaryExpression arm, once both operands are evaluated
EvaluateBinary(op, left_result, right_result, shift_outcome) ==
    LET lw == left_result.bit_width_size
        rw == right_result.bit_width_size
        operand_width == Max(lw, rw)
        reported == left_result.reported \o right_result.reported
        both == left_result.statically_evaluated_value # <<>>
                /\ right_result.statically_evaluated_value # <<>>
        lv == left_result.statically_evaluated_value[1]
        rv == right_result.statically_evaluated_value[1]
        max_value == IF AtLeast(operand_width, 64) THEN AllOnes(U64Limbs)
                     ELSE MaskBits(AllOnes(U64Limbs), operand_width[1])
        overflow == IF Less(WrapSub(max_value, rv), lv)
                    THEN <<"Constant Math Overflow: " \o to_string(lv)
                           \o " + " \o to_string(rv)>>
                    ELSE <<>>
    IN  With(ResultWidth(op, lw, rw), LAMBDA result_width :
            IF both /\ Str(op) = "+"
            THEN ExpressionResult(
                     <<MaskToWidth(WrapAdd(lv, rv), result_width, shift_outcome)>>,
                     result_width, reported \o overflow)
            ELSE IF both /\ Str(op) = "-"
            THEN ExpressionResult(
                     <<MaskToWidth(WrapSub(lv, rv), result_width, shift_outcome)>>,
                     result_width, reported)
            ELSE ExpressionResult(<<>>, result_width, reported))

RECURSIVE evaluate_expression_properties(_, _, _, _)
evaluate_expression_properties(e, params, widths, shift_outcome) ==
    IF e.k = "Identifier" THEN
        IF e.identifier_name \in DOMAIN params
        THEN ExpressionResult(<<params[e.identifier_name]>>, U32(32), <<>>)
        ELSE IF e.identifier_name \in DOMAIN widths
        THEN ExpressionResult(<<>>, widths[e.identifier_name], <<>>)
        ELSE ExpressionResult(<<>>, U32(32), <<>>)
    ELSE IF e.k = "Number" THEN
        With(parse_verilog_number(e.numeric_value_string),
             LAMBDA parsed_constant_value :
                IF parsed_constant_value.ok
                THEN ExpressionResult(<<parsed_constant_value.numeric_value>>,
                                      parsed_constant_value.bit_width_size, <<>>)
                ELSE ExpressionResult(<<>>, U32(32), <<>>))
    ELSE
        EvaluateBinary(e.operator_symbol,
            evaluate_expression_properties(e.left_expression, params, widths,
                                           shift_outcome),
            evaluate_expression_properties(e.right_expression, params, widths,
                                           shift_outcome),
            shift_outcome)

(***************************************************************************)
(* Linter: the statement checker.  The linter's tables are threaded        *)
(* through the recursion as one record; the context of the always block    *)
(* being walked (its identity and whether it is combinational) and the     *)
(* parameter and width tables are read only.                               *)
(***************************************************************************)
MapPut(f, key, v) == [x \in (DOMAIN f) \cup {key} |-> IF x = key THEN v ELSE f[x]]
EmptyMap == [x \in {} |-> 0]

MultiDrivenMessage(name) ==
    "Multi-Driven Register: '" \o Str(name) \o "' is driven by multiple blocks."
WidthMismatchMessage(rhs_width, lhs_width, name) ==
    "Structural Width Mismatch (Carry Overflow): Assigning a " \o to_string(rhs_width)
    \o "-bit mathematical result to a " \o to_string(lhs_width)
    \o "-bit register '" \o Str(name) \o "'."
UnreachableBlockMessage == "Unreachable Block: 'if' condition evaluates to false (0)."
InferLatchMessage == "Infer Latch: 'if' statement without 'else' branch."
NonFullCaseMessage == "Non Full/Parallel Case: 'case' missing 'default'."
UnreachableStateMessage(name) ==
    "Unreachable Finite State Machine State: Parameter '" \o Str(name)
    \o "' never used."
UninitializedMessage(name) ==
    "Un-initialized Register: '" \o Str(name) \o "' declared but never driven."

\* register-level checks that take any recorded driver for a second one,
\* the block being walked included
RegisterChecksAnyDriver(assigned_name, rhs_width, st, ctx) ==
    [st EXCEPT
        !.written = MapPut(@, assigned_name, TRUE),
        !.driver = MapPut(@, assigned_name, ctx.current_always_block),
        !.violations = @
            \o (IF assigned_name \in DOMAIN st.driver
                THEN <<MultiDrivenMessage(assigned_name)>> ELSE <<>>)
            \o (IF assigned_name \in DOMAIN ctx.widths
                   /\ Less(ctx.widths[assigned_name], rhs_width)
                THEN <<WidthMismatchMessage(rhs_width, ctx.widths[assigned_name],
                                            assigned_name)>>
                ELSE <<>>)]

\* the register-level checks of an assignment whose target is a plain
\* identifier: written flag, multi-driver check, driver record, width check
RegisterChecks(assigned_name, rhs_width, st, ctx) ==
    LET multi == IF assigned_name \in DOMAIN st.driver
                    /\ st.driver[assigned_name] # ctx.current_always_block
                 THEN <<MultiDrivenMessage(assigned_name)>> ELSE <<>>
        mismatch == IF assigned_name \in DOMAIN ctx.widths
                       /\ Less(ctx.widths[assigned_name], rhs_width)
                    THEN <<WidthMismatchMessage(rhs_width, ctx.widths[assigned_name],
                                                assigned_name)>>
                    ELSE <<>>
    IN  [st EXCEPT
            !.written = MapPut(@, assigned_name, TRUE),
            !.driver = MapPut(@, assigned_name, ctx.current_always_block),
            !.violations = @ \o multi \o mismatch]

Report(st, messages) == [st EXCEPT !.violations = @ \o messages]

\* the NonBlockingAssignment arm of analyze_statement_for_violations
AnalyzeAssignment(s, st, ctx, shift_outcome) ==
    With(evaluate_expression_properties(s.right_hand_side_expression, ctx.params,
                                        ctx.widths, shift_outcome),
         LAMBDA rhs_result :
            IF s.left_hand_side_expression.k = "Identifier"
            THEN RegisterChecks(s.left_hand_side_expression.identifier_name,
                                rhs_result.bit_width_size,
                                Report(st, rhs_result.reported), ctx)
            ELSE Report(st, rhs_result.reported))

\* what the IfStatement arm reports before it recurses
IfMessages(s, condition_result, ctx) ==
    condition_result.reported
    \o (IF condition_result.statically_evaluated_value # <<>>
           /\ IsZero(condition_result.statically_evaluated_value[1])
        THEN <<UnreachableBlockMessage>> ELSE <<>>)
    \o (IF ctx.in_combinational_always_block /\ s.false_branch_statement = <<>>
        THEN <<InferLatchMessage>> ELSE <<>>)

\* what the CaseStatement arm reports before it recurses
CaseMessages(s, condition_result, ctx) ==
    condition_result.reported
    \o (IF s.default_branch_statement = <<>> THEN <<NonFullCaseMessage>> ELSE <<>>)

RECURSIVE analyze_statement_for_violations(_, _, _, _)
RECURSIVE AnalyzeStatements(_, _, _, _, _)
RECURSIVE AnalyzeBranches(_, _, _, _, _)

\* the BlockStatement loop
AnalyzeStatements(stmts, i, st, ctx, shift_outcome) ==
    IF i > Len(stmts) THEN st
    ELSE AnalyzeStatements(stmts, i + 1,
             analyze_statement_for_violations(stmts[i], st, ctx, shift_outcome),
             ctx, shift_outcome)

\* a case arm's selector is recorded when it is a plain identifier
RecordCaseItem(selector, st) ==
    IF selector.k = "Identifier"
    THEN [st EXCEPT !.used = @ \cup {selector.identifier_name}]
    ELSE st

\* the loop over case_branches
AnalyzeBranches(branches, i, st, ctx, shift_outcome) ==
    IF i > Len(branches) THEN st
    ELSE AnalyzeBranches(branches, i + 1,
             analyze_statement_for_violations(
                 branches[i][2], RecordCaseItem(branches[i][1], st), ctx,
                 shift_outcome),
             ctx, shift_outcome)

\* an optional statement (the else branch, the default branch) is walked
\* when present
AnalyzeOptional(optional_statement, st, ctx, shift_outcome) ==
    IF optional_statement # <<>>
    THEN analyze_statement_for_violations(optional_statement[1], st, ctx,
                                          shift_outcome)
    ELSE st

\* the IfStatement arm
AnalyzeIf(s, st, ctx, shift_outcome) ==
    AnalyzeOptional(s.false_branch_statement,
        analyze_statement_for_violations(
            s.true_branch_statement,
            Report(st, IfMessages(s,
                           evaluate_expression_properties(
                               s.condition_expression, ctx.params, ctx.widths,
                               shift_outcome),
                           ctx)),
            ctx, shift_outcome),
        ctx, shift_outcome)

\* the CaseStatement arm
AnalyzeCase(s, st, ctx, shift_outcome) ==
    AnalyzeBranches(s.case_branches, 1,
        AnalyzeOptional(s.default_branch_statement,
            Report(st, CaseMessages(s,
                           evaluate_expression_properties(
                               s.condition_expression, ctx.params, ctx.widths,
                               shift_outcome),
                           ctx)),
            ctx, shift_outcome),
        ctx, shift_outcome)

analyze_statement_for_violations(s, st, ctx, shift_outcome) ==
    IF s.k = "NonBlockingAssignment" THEN AnalyzeAssignment(s, st, ctx, shift_outcome)
    ELSE IF s.k = "IfStatement" THEN AnalyzeIf(s, st, ctx, shift_outcome)
    ELSE IF s.k = "BlockStatement"
    THEN AnalyzeStatements(s.contained_statements, 1, st, ctx, shift_outcome)
    ELSE AnalyzeCase(s, st, ctx, shift_outcome)

\* width = (msb - lsb) + 1 in uint64_t, stored in a uint32_t; 1 unless both
\* bounds are constants
RangeWidth(msb_result, lsb_result) ==
    [width |-> IF msb_result.statically_evaluated_value # <<>>
                  /\ lsb_result.statically_evaluated_value # <<>>
               THEN Narrow32(WrapAdd(
                        WrapSub(msb_result.statically_evaluated_value[1],
                                lsb_result.statically_evaluated_value[1]),
                        U64(1)))
               ELSE U32(1),
     reported |-> msb_result.reported \o lsb_result.reported]

\* the width pass 2 of analyze_module gives a port
PortWidth(port_item, params, widths, shift_outcome) ==
    IF port_item.bit_range = <<>> THEN [width |-> U32(1), reported |-> <<>>]
    ELSE RangeWidth(
             evaluate_expression_properties(
                 port_item.bit_range[1].most_significant_bit, params, widths,
                 shift_outcome),
             evaluate_expression_properties(
                 port_item.bit_range[1].least_significant_bit, params, widths,
                 shift_outcome))

RECURSIVE UnreachableStates(_, _, _)
\* check_for_unreachable_finite_state_machine_states: the violations, in order
UnreachableStates(states, i, used) ==
    IF i > Len(states) THEN <<>>
    ELSE (IF Contains(states[i], <<"S","T","A","T","E">>) /\ states[i] \notin used
          THEN <<UnreachableStateMessage(states[i])>> ELSE <<>>)
         \o UnreachableStates(states, i + 1, used)

(***************************************************************************)
(* Lexer: LexicalAnalyzer.  The source is a sequence of characters;        *)
(* current_character_pointer is an index into it and                       *)
(* end_character_pointer is Len(src) + 1.                                  *)
(***************************************************************************)
Chars(seq) == {seq[i] : i \in DOMAIN seq}

is_digit_character(character) == character \in Chars(DigitChars)
is_alphabet_character(character) ==
    character \in Chars(LowerChars) \cup Chars(UpperChars) \cup {"_"}
is_whitespace_character(character) == character \in {" ", "\n", "\t", "\r"}

Keywords ==
    {"module", "endmodule", "input", "output", "inout", "reg", "wire", "always",
     "posedge", "negedge", "begin", "end", "if", "else", "parameter", "or",
     "case", "endcase", "default"}
is_verilog_keyword(string_view_input) == Str(string_view_input) \in Keywords

Token(type, content, cur) == [type |-> type, content |-> content, cur |-> cur]

RECURSIVE SkipWhitespace(_, _)
SkipWhitespace(src, cur) ==
    IF cur <= Len(src) /\ is_whitespace_character(src[cur])
    THEN SkipWhitespace(src, cur + 1) ELSE cur

\* a line comment that runs to the end of the text
SkipLineCommentToEnd(src, cur) == Len(src) + 1

RECURSIVE SkipLineComment(_, _)
\* up to, not including, the newline
SkipLineComment(src, cur) ==
    IF cur <= Len(src) /\ src[cur] # "\n"
    THEN SkipLineComment(src, cur + 1) ELSE cur

RECURSIVE ScanBlockComment(_, _)
\* up to the closing star-slash, or to the last character when there is none
ScanBlockComment(src, cur) ==
    IF cur + 1 <= Len(src) /\ ~(src[cur] = "*" /\ src[cur + 1] = "/")
    THEN ScanBlockComment(src, cur + 1) ELSE cur

SkipBlockComment(src, cur) ==
    With(ScanBlockComment(src, cur), LAMBDA stop :
        IF stop + 1 <= Len(src) THEN stop + 2 ELSE stop)

RECURSIVE ScanNumber(_, _)
ScanNumber(src, cur) ==
    IF cur <= Len(src)
       /\ (is_digit_character(src[cur]) \/ is_alphabet_character(src[cur])
           \/ src[cur] = "'")
    THEN ScanNumber(src, cur + 1) ELSE cur

RECURSIVE ScanWord(_, _)
ScanWord(src, cur) ==
    IF cur <= Len(src)
       /\ (is_alphabet_character(src[cur]) \/ is_digit_character(src[cur]))
    THEN ScanWord(src, cur + 1) ELSE cur

\* the token that starts at start, which is on a character that is neither
\* whitespace nor the start of a comment
RealToken(src, start) ==
    IF is_digit_character(src[start])
    THEN With(ScanNumber(src, start), LAMBDA stop :
            Token("NumberLiteral", SubSeq(src, start, stop - 1), stop))
    ELSE IF is_alphabet_character(src[start])
    THEN With(ScanWord(src, start), LAMBDA stop :
            Token(IF is_verilog_keyword(SubSeq(src, start, stop - 1))
                  THEN "Keyword" ELSE "Identifier",
                  SubSeq(src, start, stop - 1), stop))
    ELSE IF start + 1 <= Len(src) /\ src[start] \in {"<", "="}
            /\ src[start + 1] = "="
    THEN Token("Symbol", SubSeq(src, start, start + 1), start + 2)
    ELSE Token("Symbol", <<src[start]>>, start + 1)

RECURSIVE AfterWhitespace(_, _)
RECURSIVE get_next_token(_, _)
\* the body of the outer loop once whitespace is skipped
AfterWhitespace(src, cur) ==
    IF cur > Len(src) THEN Token("EndToken", <<>>, cur)
    ELSE IF src[cur] = "/" /\ cur + 1 <= Len(src) /\ src[cur + 1] = "/"
    THEN get_next_token(src, SkipLineComment(src, cur + 2))
    ELSE IF src[cur] = "/" /\ cur + 1 <= Len(src) /\ src[cur + 1] = "*"
    THEN get_next_token(src, SkipBlockComment(src, cur + 2))
    ELSE RealToken(src, cur)

get_next_token(src, cur) ==
    IF cur > Len(src) THEN Token("EndToken", <<>>, cur)
    ELSE AfterWhitespace(src, SkipWhitespace(src, cur))

(***************************************************************************)
(* Parser: VerilogParser.  The lexer does not depend on the parser, so the *)
(* tokens get_next_token returns from the start of the source are taken as *)
(* a sequence, with EndToken returned for ever after the last of them.  A  *)
(* parser state holds the place of the lookahead in that sequence (next)   *)
(* and the lookahead (current_token); every parse function maps a state to *)
(* a state that also carries the parsed value (val).  status is "ok" while *)
(* the parse runs, "exit" once it has written err to std::cerr and called  *)
(* exit(1), and "loop" once it is in a loop that never ends.               *)
(***************************************************************************)
RECURSIVE TokensFrom(_, _, _)
\* the tokens of at most count successive calls of get_next_token from cur,
\* up to EndToken, and the pointer after them; the calls are taken by halves
TokensFrom(src, cur, count) ==
    IF cur > Len(src) THEN [tokens |-> <<>>, cur |-> cur]
    ELSE IF count = 1
    THEN With(get_next_token(src, cur), LAMBDA t :
            [tokens |-> IF t.type = "EndToken" THEN <<>>
                        ELSE <<[type |-> t.type, content |-> t.content]>>,
             cur |-> t.cur])
    ELSE With(TokensFrom(src, cur, count \div 2), LAMBDA first :
         With(TokensFrom(src, first.cur, count - (count \div 2)), LAMBDA rest :
            [tokens |-> first.tokens \o rest.tokens, cur |-> rest.cur]))

\* every token of the source: no token is empty, so there are at most
\* Len(src) of them
Tokens(src) == TokensFrom(src, 1, Len(src) + 1).tokens

TokenAt(tokens, i) ==
    IF i <= Len(tokens) THEN tokens[i]
    ELSE [type |-> "EndToken", content |-> <<>>]

advance_to_next_token(tokens, ps) ==
    [ps EXCEPT !.next = @ + 1, !.current_token = TokenAt(tokens, ps.next + 1)]

\* VerilogParser's constructor
ParserConstructed(tokens) ==
    [status |-> "ok", next |-> 1, current_token |-> TokenAt(tokens, 1),
     val |-> <<>>, err |-> ""]

\* the test of match_and_consume_token; the text "" matches any content
Matches(ps, expected_type, expected_content) ==
    /\ ps.current_token.type = expected_type
    /\ (expected_content = "" \/ Str(ps.current_token.content) = expected_content)

\* a parse that has called exit, or is in a loop for ever, goes no further:
\* every parse function leaves its state as it is
Stopped(ps) == ps.status # "ok"
Exit(ps, message) == [ps EXCEPT !.status = "exit", !.err = message]

expect_token_or_fail(tokens, ps, expected_type, expected_content) ==
    IF Stopped(ps) THEN ps
    ELSE IF Matches(ps, expected_type, expected_content)
    THEN advance_to_next_token(tokens, ps)
    ELSE Exit(ps, "Syntax Error: Expected '" \o expected_content
                  \o "' but got '" \o Str(ps.current_token.content) \o "'")

\* a parse function returns a value
Returning(ps, v) == IF Stopped(ps) THEN ps ELSE [ps EXCEPT !.val = v]
\* a parse function returns a value made from the last one parsed
Built(ps, Make(_)) == Returning(ps, Make(ps.val))

\* a comma is consumed when it is there
SkipComma(tokens, ps) ==
    IF Str(ps.current_token.content) = "," THEN advance_to_next_token(tokens, ps)
    ELSE ps

RECURSIVE parse_expression(_, _)
\* the optional binary operator of parse_expression, the primary parsed
ParseOperator(tokens, ps, left_side_expression) ==
    IF ps.current_token.type = "Symbol"
       /\ Str(ps.current_token.content) \in {"+", "-", "=="}
    THEN Built(parse_expression(tokens, advance_to_next_token(tokens, ps)),
               LAMBDA right_side_expression :
                   BinaryExpression(ps.current_token.content,
                                    left_side_expression, right_side_expression))
    ELSE Returning(ps, left_side_expression)

parse_expression(tokens, ps) ==
    IF Stopped(ps) THEN ps
    ELSE IF ps.current_token.type = "Identifier"
    THEN ParseOperator(tokens, advance_to_next_token(tokens, ps),
                       Identifier(ps.current_token.content))
    ELSE IF ps.current_token.type = "NumberLiteral"
    THEN ParseOperator(tokens, advance_to_next_token(tokens, ps),
                       Number(ps.current_token.content))
    ELSE ParseOperator(tokens, ps, Identifier(<<>>))

\* the non-blocking assignment of parse_statement_definition
ParseAssignment(tokens, ps) ==
    Built(expect_token_or_fail(tokens,
              parse_expression(tokens,
                  expect_token_or_fail(tokens, advance_to_next_token(tokens, ps),
                                       "Symbol", "<=")),
              "Symbol", ";"),
          LAMBDA right_hand_side_expression :
              NonBlockingAssignment(Identifier(ps.current_token.content),
                                    right_hand_side_expression))

RECURSIVE parse_statement_definition(_, _)
RECURSIVE ParseBlockLoop(_, _, _)
RECURSIVE ParseCaseLoop(_, _, _, _, _)

\* a statement of a begin block is parsed: it is pushed and the loop goes on
BlockStatementParsed(tokens, ps, parsed_statements) ==
    ParseBlockLoop(tokens, ps, Append(parsed_statements, ps.val))

\* the loop of a begin block, up to the matching end
ParseBlockLoop(tokens, ps, parsed_statements) ==
    IF Stopped(ps) THEN ps
    ELSE IF Matches(ps, "Keyword", "end")
    THEN Returning(expect_token_or_fail(tokens, ps, "Keyword", "end"),
                   BlockStatement(parsed_statements))
    ELSE BlockStatementParsed(tokens, parse_statement_definition(tokens, ps),
                              parsed_statements)

\* the if statement from the optional else on
ParseElse(tokens, ps, condition_expression) ==
    IF Stopped(ps) THEN ps
    ELSE IF Matches(ps, "Keyword", "else")
    THEN Built(parse_statement_definition(tokens, advance_to_next_token(tokens, ps)),
               LAMBDA false_branch_statement :
                   IfStatement(condition_expression, ps.val,
                               <<false_branch_statement>>))
    ELSE Returning(ps, IfStatement(condition_expression, ps.val, <<>>))

\* the if statement from the closing parenthesis of its condition on
ParseIfBranches(tokens, ps) ==
    ParseElse(tokens,
        parse_statement_definition(tokens,
            expect_token_or_fail(tokens, ps, "Symbol", ")")),
        ps.val)

\* the if statement, the keyword consumed
ParseIf(tokens, ps) ==
    ParseIfBranches(tokens,
        parse_expression(tokens, expect_token_or_fail(tokens, ps, "Symbol", "(")))

\* the default arm is parsed: it takes the slot and the loop goes on
DefaultArmParsed(tokens, ps, condition_expression, parsed_case_branches) ==
    ParseCaseLoop(tokens, ps, condition_expression, parsed_case_branches,
                  <<ps.val>>)

\* a regular arm is parsed: it is pushed and the loop goes on
CaseArmParsed(tokens, ps, case_item_expression, condition_expression, parsed_case_branches, default_branch_statement) ==
    ParseCaseLoop(tokens, ps, condition_expression,
                  Append(parsed_case_branches, <<case_item_expression, ps.val>>),
                  default_branch_statement)

\* a regular arm from its colon on
ParseCaseArm(tokens, ps, condition_expression, parsed_case_branches, default_branch_statement) ==
    CaseArmParsed(tokens,
        parse_statement_definition(tokens,
            expect_token_or_fail(tokens, ps, "Symbol", ":")),
        ps.val, condition_expression, parsed_case_branches,
        default_branch_statement)

\* the arms of a case statement, up to endcase
ParseCaseLoop(tokens, ps, condition_expression, parsed_case_branches, default_branch_statement) ==
    IF Stopped(ps) THEN ps
    ELSE IF Matches(ps, "Keyword", "endcase")
    THEN Returning(expect_token_or_fail(tokens, ps, "Keyword", "endcase"),
                   CaseStatement(condition_expression, parsed_case_branches,
                                 default_branch_statement))
    ELSE IF Matches(ps, "Keyword", "default")
    THEN DefaultArmParsed(tokens,
             parse_statement_definition(tokens,
                 expect_token_or_fail(tokens, advance_to_next_token(tokens, ps),
                                      "Symbol", ":")),
             condition_expression, parsed_case_branches)
    ELSE ParseCaseArm(tokens, parse_expression(tokens, ps), condition_expression,
                      parsed_case_branches, default_branch_statement)

\* the case statement from the closing parenthesis of its condition on
ParseCaseArms(tokens, ps) ==
    ParseCaseLoop(tokens, expect_token_or_fail(tokens, ps, "Symbol", ")"),
                  ps.val, <<>>, <<>>)

\* the case statement, the keyword consumed
ParseCase(tokens, ps) ==
    ParseCaseArms(tokens,
        parse_expression(tokens, expect_token_or_fail(tokens, ps, "Symbol", "(")))

parse_statement_definition(tokens, ps) ==
    IF Stopped(ps) THEN ps
    ELSE IF Matches(ps, "Keyword", "begin")
    THEN ParseBlockLoop(tokens, advance_to_next_token(tokens, ps), <<>>)
    ELSE IF Matches(ps, "Keyword", "if")
    THEN ParseIf(tokens, advance_to_next_token(tokens, ps))
    ELSE IF Matches(ps, "Keyword", "case")
    THEN ParseCase(tokens, advance_to_next_token(tokens, ps))
    ELSE IF ps.current_token.type = "Identifier"
    THEN ParseAssignment(tokens, ps)
    ELSE Exit(ps, "Syntax Error in Statement: " \o Str(ps.current_token.content))

\* the bit range from its colon on, the most significant bit parsed
ParseRangeLsb(tokens, ps) ==
    Built(expect_token_or_fail(tokens,
              parse_expression(tokens,
                  expect_token_or_fail(tokens, ps, "Symbol", ":")),
              "Symbol", "]"),
          LAMBDA least_significant_bit_expression :
              <<BitRange(ps.val, least_significant_bit_expression)>>)

\* the optional [msb : lsb] of parse_port_definition
ParsePortRange(tokens, ps) ==
    IF Matches(ps, "Symbol", "[")
    THEN ParseRangeLsb(tokens,
             parse_expression(tokens, advance_to_next_token(tokens, ps)))
    ELSE Returning(ps, <<>>)

\* the port name, which ends parse_port_definition
ParsePortName(tokens, ps, parsed_port_direction, is_register_type) ==
    Built(expect_token_or_fail(tokens, ps, "Identifier", ""),
          LAMBDA parsed_port_range :
              Port(parsed_port_direction, is_register_type, parsed_port_range,
                   ps.current_token.content))

\* parse_port_definition from the optional reg on
ParsePortRegister(tokens, ps, parsed_port_direction) ==
    IF Matches(ps, "Keyword", "reg")
    THEN ParsePortName(tokens,
             ParsePortRange(tokens, advance_to_next_token(tokens, ps)),
             parsed_port_direction, TRUE)
    ELSE ParsePortName(tokens, ParsePortRange(tokens, ps),
                       parsed_port_direction, FALSE)

parse_port_definition(tokens, ps) ==
    IF Stopped(ps) THEN ps
    ELSE IF Matches(ps, "Keyword", "input")
    THEN ParsePortRegister(tokens, advance_to_next_token(tokens, ps), "Input")
    ELSE IF Matches(ps, "Keyword", "output")
    THEN ParsePortRegister(tokens, advance_to_next_token(tokens, ps), "Output")
    ELSE ParsePortRegister(tokens, ps, "Input")

\* match_and_consume_token with its result unused
SkipIf(tokens, ps, expected_type, expected_content) ==
    IF Matches(ps, expected_type, expected_content)
    THEN advance_to_next_token(tokens, ps) ELSE ps

\* the parser state after the optional posedge or negedge, val the edge
ParseEdge(tokens, ps) ==
    IF Matches(ps, "Keyword", "posedge")
    THEN Returning(advance_to_next_token(tokens, ps), "PositiveEdge")
    ELSE IF Matches(ps, "Keyword", "negedge")
    THEN Returning(advance_to_next_token(tokens, ps), "NegativeEdge")
    ELSE Returning(ps, "None")

\* the signal name of a sensitivity entry is taken when the lookahead is an
\* identifier or any symbol
ParseSignal(tokens, ps, parsed_sensitivities) ==
    IF ps.current_token.type \in {"Identifier", "Symbol"}
    THEN Returning(advance_to_next_token(tokens, ps),
                   Append(parsed_sensitivities,
                          Sensitivity(ps.val, ps.current_token.content)))
    ELSE Returning(ps, parsed_sensitivities)

\* one iteration of the sensitivity loop
SensitivityEntry(tokens, ps, parsed_sensitivities) ==
    SkipIf(tokens,
           SkipIf(tokens,
                  ParseSignal(tokens, ParseEdge(tokens, ps), parsed_sensitivities),
                  "Keyword", "or"),
           "Symbol", ",")

RECURSIVE ParseSensitivityLoop(_, _, _)
\* an iteration that consumed no token leaves the loop where it was, and it
\* never ends
SensitivityEntryParsed(tokens, ps, before) ==
    IF ps.next = before.next THEN [before EXCEPT !.status = "loop"]
    ELSE ParseSensitivityLoop(tokens, ps, ps.val)

\* the sensitivity loop, up to the closing parenthesis
ParseSensitivityLoop(tokens, ps, parsed_sensitivities) ==
    IF Stopped(ps) THEN ps
    ELSE IF Matches(ps, "Symbol", ")") THEN Returning(ps, parsed_sensitivities)
    ELSE SensitivityEntryParsed(tokens,
             SensitivityEntry(tokens, ps, parsed_sensitivities), ps)

\* the always block from the closing parenthesis of its sensitivity list on
ParseAlwaysBody(tokens, ps) ==
    Built(parse_statement_definition(tokens,
              expect_token_or_fail(tokens, ps, "Symbol", ")")),
          LAMBDA parsed_body_statement :
              AlwaysBlock(ps.val, parsed_body_statement))

parse_always_block_definition(tokens, ps) ==
    ParseAlwaysBody(tokens,
        ParseSensitivityLoop(tokens,
            expect_token_or_fail(tokens,
                expect_token_or_fail(tokens,
                    expect_token_or_fail(tokens, ps, "Keyword", "always"),
                    "Symbol", "@"),
                "Symbol", "("),
            <<>>))

RECURSIVE ParseParameterLoop(_, _, _)
\* a parameter's value is parsed: the parameter is pushed, a comma skipped,
\* and the loop goes on
ParameterParsed(tokens, ps, parsed_parameter_name, parsed_parameters) ==
    IF Stopped(ps) THEN ps
    ELSE ParseParameterLoop(tokens, SkipComma(tokens, ps),
             Append(parsed_parameters, Parameter(parsed_parameter_name, ps.val)))

\* a parameter declaration from its name on
ParseParameter(tokens, ps, parsed_parameters) ==
    ParameterParsed(tokens,
        parse_expression(tokens,
            expect_token_or_fail(tokens,
                expect_token_or_fail(tokens, ps, "Identifier", ""),
                "Symbol", "=")),
        ps.current_token.content, parsed_parameters)

\* the loop over the parameter declarations of a header parameter list
ParseParameterLoop(tokens, ps, parsed_parameters) ==
    IF Stopped(ps) THEN ps
    ELSE IF Matches(ps, "Keyword", "parameter")
    THEN ParseParameter(tokens, advance_to_next_token(tokens, ps),
                        parsed_parameters)
    ELSE Returning(ps, parsed_parameters)

\* the optional #( ... ) of parse_module_definition
ParseParameterList(tokens, ps) ==
    IF Stopped(ps) THEN ps
    ELSE IF Matches(ps, "Symbol", "#")
    THEN expect_token_or_fail(tokens,
             ParseParameterLoop(tokens,
                 expect_token_or_fail(tokens, advance_to_next_token(tokens, ps),
                                      "Symbol", "("),
                 <<>>),
             "Symbol", ")")
    ELSE Returning(ps, <<>>)

RECURSIVE ParsePortLoop(_, _, _)
\* a port is parsed: it is pushed, a comma skipped, and the loop goes on
PortParsed(tokens, ps, parsed_ports) ==
    IF Stopped(ps) THEN ps
    ELSE ParsePortLoop(tokens, SkipComma(tokens, ps), Append(parsed_ports, ps.val))

\* the loop over the port list, up to the closing parenthesis
ParsePortLoop(tokens, ps, parsed_ports) ==
    IF Stopped(ps) THEN ps
    ELSE IF Matches(ps, "Symbol", ")") THEN Returning(ps, parsed_ports)
    ELSE PortParsed(tokens, parse_port_definition(tokens, ps), parsed_ports)

RECURSIVE SkipToSemicolon(_, _)
SkipToSemicolon(tokens, ps) ==
    IF ~Matches(ps, "Symbol", ";") /\ ps.current_token.type # "EndToken"
    THEN SkipToSemicolon(tokens, advance_to_next_token(tokens, ps))
    ELSE ps

RECURSIVE SkipDeclarations(_, _)
\* internal reg and wire declarations are skipped, each up to its semicolon
SkipDeclarations(tokens, ps) ==
    IF Stopped(ps) THEN ps
    ELSE IF ps.current_token.type = "Keyword"
            /\ Str(ps.current_token.content) \in {"reg", "wire"}
    THEN SkipDeclarations(tokens,
             advance_to_next_token(tokens, SkipToSemicolon(tokens, ps)))
    ELSE ps

RECURSIVE ParseItemLoop(_, _, _)
\* an always block is parsed: it is pushed and the loop goes on
ItemParsed(tokens, ps, parsed_module_items) ==
    ParseItemLoop(tokens, ps, Append(parsed_module_items, ps.val))

\* the module body: always blocks up to endmodule
ParseItemLoop(tokens, ps, parsed_module_items) ==
    IF Stopped(ps) THEN ps
    ELSE IF Matches(ps, "Keyword", "endmodule")
    THEN Returning(ps, parsed_module_items)
    ELSE IF Str(ps.current_token.content) = "always"
    THEN ItemParsed(tokens, parse_always_block_definition(tokens, ps),
                    parsed_module_items)
    ELSE Exit(ps, "Unknown module item: " \o Str(ps.current_token.content))

\* parse_module_definition from the end of the port list on
ParseModuleBody(tokens, ps, parsed_module_name, parsed_parameters) ==
    Built(expect_token_or_fail(tokens,
              ParseItemLoop(tokens, SkipDeclarations(tokens, ps), <<>>),
              "Keyword", "endmodule"),
          LAMBDA parsed_module_items :
              Module(parsed_module_name, parsed_parameters, ps.val,
                     parsed_module_items))

\* parse_module_definition from the port list on
ParseModulePorts(tokens, ps, parsed_module_name) ==
    ParseModuleBody(tokens,
        expect_token_or_fail(tokens,
            expect_token_or_fail(tokens,
                ParsePortLoop(tokens,
                    expect_token_or_fail(tokens, ps, "Symbol", "("), <<>>),
                "Symbol", ")"),
            "Symbol", ";"),
        parsed_module_name, ps.val)

\* parse_module_definition from the module name on
ParseModuleName(tokens, ps) ==
    ParseModulePorts(tokens,
        ParseParameterList(tokens,
            expect_token_or_fail(tokens, ps, "Identifier", "")),
        ps.current_token.content)

parse_module_definition(tokens, ps) ==
    ParseModuleName(tokens, expect_token_or_fail(tokens, ps, "Keyword", "module"))

(***************************************************************************)
(* The program state.                                                      *)
(***************************************************************************)
VARIABLES
    source,                       \* main: source_code_content
    pc,                           \* where the run is
    verilog_module,               \* the Module analyze_module works on
    next_index,                   \* the loop index of the pass at pc
    current_linter_context,
    linter_violations,
    evaluated_parameter_values,
    evaluated_signal_widths,
    register_driven_by_block,
    is_register_written_to,
    finite_state_machine_states,
    used_case_statement_items,
    std_out,                      \* lines written to std::cout
    std_err,                      \* lines written to std::cerr
    exit_status,                  \* -1 while the program runs
    returned                      \* what a function called on its own returned

vars == <<source, pc, verilog_module, next_index, current_linter_context,
          linter_violations, evaluated_parameter_values, evaluated_signal_widths,
          register_driven_by_block, is_register_written_to,
          finite_state_machine_states, used_case_statement_items,
          std_out, std_err, exit_status, returned>>

NoModule == Module(<<>>, <<>>, <<>>, <<>>)
NullBlock == 0

\* a freshly constructed VerilogStaticLinter (Linter.h member initialisers)
LinterConstructed ==
    /\ current_linter_context =
           [current_always_block |-> NullBlock, in_combinational_always_block |-> FALSE]
    /\ linter_violations = <<>>
    /\ evaluated_parameter_values = EmptyMap
    /\ evaluated_signal_widths = EmptyMap
    /\ register_driven_by_block = EmptyMap
    /\ is_register_written_to = EmptyMap
    /\ finite_state_machine_states = <<>>
    /\ used_case_statement_items = {}

\* where analyze_module goes once a pass has nothing left
AfterPorts(m) == IF Len(m.module_items) > 0 THEN "items" ELSE "fsm_check"
AfterParameters(m) == IF Len(m.module_ports) > 0 THEN "ports" ELSE AfterPorts(m)
FirstPass(m) == IF Len(m.module_parameters) > 0 THEN "parameters"
                ELSE AfterParameters(m)

(***************************************************************************)
(* analyze_module, pass 1: one iteration of the parameter loop.            *)
(***************************************************************************)
AnalyzeParameter ==
    /\ pc = "parameters"
    /\ \E shift_outcome \in ShiftOutcomes :
       \E parameter_item \in {verilog_module.module_parameters[next_index]} :
       \E expression_result \in {evaluate_expression_properties(
                parameter_item.default_value_expression,
                evaluated_parameter_values, evaluated_signal_widths, shift_outcome)} :
            /\ finite_state_machine_states' =
                   Append(finite_state_machine_states, parameter_item.parameter_name)
            /\ linter_violations' = linter_violations \o expression_result.reported
            /\ evaluated_parameter_values' =
                   IF expression_result.statically_evaluated_value # <<>>
                   THEN MapPut(evaluated_parameter_values,
                               parameter_item.parameter_name,
                               expression_result.statically_evaluated_value[1])
                   ELSE evaluated_parameter_values
    /\ IF next_index < Len(verilog_module.module_parameters)
       THEN pc' = pc /\ next_index' = next_index + 1
       ELSE pc' = AfterParameters(verilog_module) /\ next_index' = 1
    /\ UNCHANGED <<source, returned, verilog_module, current_linter_context,
                   evaluated_signal_widths, register_driven_by_block,
                   is_register_written_to, used_case_statement_items,
                   std_out, std_err, exit_status>>

(***************************************************************************)
(* analyze_module, pass 2: one iteration of the port loop.                 *)
(***************************************************************************)
AnalyzePort ==
    /\ pc = "ports"
    /\ \E shift_outcome \in ShiftOutcomes :
       \E port_item \in {verilog_module.module_ports[next_index]} :
       \E evaluated \in {PortWidth(port_item, evaluated_parameter_values,
                                   evaluated_signal_widths, shift_outcome)} :
            /\ linter_violations' = linter_violations \o evaluated.reported
            /\ evaluated_signal_widths' =
                   MapPut(evaluated_signal_widths, port_item.port_name, evaluated.width)
            /\ is_register_written_to' =
                   IF port_item.is_register_type /\ port_item.direction = "Output"
                   THEN MapPut(is_register_written_to, port_item.port_name, FALSE)
                   ELSE is_register_written_to
    /\ IF next_index < Len(verilog_module.module_ports)
       THEN pc' = pc /\ next_index' = next_index + 1
       ELSE pc' = AfterPorts(verilog_module) /\ next_index' = 1
    /\ UNCHANGED <<source, returned, verilog_module, current_linter_context,
                   evaluated_parameter_values, register_driven_by_block,
                   finite_state_machine_states, used_case_statement_items,
                   std_out, std_err, exit_status>>

(***************************************************************************)
(* analyze_module, pass 3: one module item (an always block) is walked.    *)
(* The block's identity (its arena address) is its place among the items.  *)
(***************************************************************************)
AnalyzeAlwaysBlock ==
    /\ pc = "items"
    /\ \E shift_outcome \in ShiftOutcomes :
       \E always_block \in {verilog_module.module_items[next_index]} :
       \E ctx \in {[current_always_block |-> next_index,
                    in_combinational_always_block |->
                        is_combinational_block(always_block),
                    params |-> evaluated_parameter_values,
                    widths |-> evaluated_signal_widths]} :
       \E after \in {analyze_statement_for_violations(
                         always_block.body_statement,
                         [violations |-> linter_violations,
                          written |-> is_register_written_to,
                          driver |-> register_driven_by_block,
                          used |-> used_case_statement_items],
                         ctx, shift_outcome)} :
            /\ linter_violations' = after.violations
            /\ is_register_written_to' = after.written
            /\ register_driven_by_block' = after.driver
            /\ used_case_statement_items' = after.used
            /\ current_linter_context' =
                   [current_always_block |-> NullBlock,
                    in_combinational_always_block |->
                        ctx.in_combinational_always_block]
    /\ IF next_index < Len(verilog_module.module_items)
       THEN pc' = pc /\ next_index' = next_index + 1
       ELSE pc' = "fsm_check" /\ next_index' = 1
    /\ UNCHANGED <<source, returned, verilog_module, evaluated_parameter_values,
                   evaluated_signal_widths, finite_state_machine_states,
                   std_out, std_err, exit_status>>

(***************************************************************************)
(* analyze_module, pass 4.                                                 *)
(***************************************************************************)
check_for_unreachable_finite_state_machine_states ==
    /\ pc = "fsm_check"
    /\ linter_violations' = linter_violations
           \o UnreachableStates(finite_state_machine_states, 1,
                                used_case_statement_items)
    /\ pc' = "uninit_check"
    /\ UNCHANGED <<source, returned, verilog_module, next_index, current_linter_context,
                   evaluated_parameter_values, evaluated_signal_widths,
                   register_driven_by_block, is_register_written_to,
                   finite_state_machine_states, used_case_statement_items,
                   std_out, std_err, exit_status>>

\* the orders in which a std::unordered_map may list a set of keys
IterationOrders(keys) ==
    {order \in [1..Cardinality(keys) -> keys] :
        \A i, j \in 1..Cardinality(keys) : order[i] = order[j] => i = j}

check_for_uninitialized_registers ==
    /\ pc = "uninit_check"
    /\ \E order \in IterationOrders(
                        {n \in DOMAIN is_register_written_to :
                            ~is_register_written_to[n]}) :
           linter_violations' = linter_violations
               \o [i \in 1..Len(order) |-> UninitializedMessage(order[i])]
    /\ pc' = "report"
    /\ UNCHANGED <<source, returned, verilog_module, next_index, current_linter_context,
                   evaluated_parameter_values, evaluated_signal_widths,
                   register_driven_by_block, is_register_written_to,
                   finite_state_machine_states, used_case_statement_items,
                   std_out, std_err, exit_status>>

(***************************************************************************)
(* print_linter_report, and the end of main.                               *)
(***************************************************************************)
ReportLines(violations) ==
    <<"", "====================================",
      "        LINTER VIOLATION REPORT       ",
      "====================================">>
    \o (IF violations = <<>> THEN <<"  No violations found. Clean code!">>
        ELSE [i \in 1..Len(violations) |->
                 " [" \o ToString(i) \o "] " \o violations[i]])
    \o <<"====================================", "">>

print_linter_report ==
    /\ pc = "report"
    /\ std_out' = std_out \o ReportLines(linter_violations)
    /\ pc' = "done"
    /\ exit_status' = 0
    /\ UNCHANGED <<source, returned, verilog_module, next_index, current_linter_context,
                   linter_violations, evaluated_parameter_values,
                   evaluated_signal_widths, register_driven_by_block,
                   is_register_written_to, finite_state_machine_states,
                   used_case_statement_items, std_err>>

(***************************************************************************)
(* The source files main is run on: the scenarios of the specification,    *)
(* variants of them in the grammar the parser accepts, and files that do   *)
(* not follow the module grammar.                                          *)
(***************************************************************************)
\* S1, the counter
SourceS1 ==
    <<"m", "o", "d", "u", "l", "e", " ", "c", "o", "u", "n", "t", "e", "r",
      " ", "#", "(", "p", "a", "r", "a", "m", "e", "t", "e", "r", " ", "W",
      "I", "D", "T", "H", " ", "=", " ", "8", ")", " ", "(", "i", "n", "p",
      "u", "t", " ", "c", "l", "k", ",", " ", "i", "n", "p", "u", "t", " ",
      "r", "s", "t", ",", " ", "o", "u", "t", "p", "u", "t", " ", "r", "e",
      "g", " ", "[", "W", "I", "D", "T", "H", "-", "1", ":", "0", "]", " ",
      "c", "o", "u", "n", "t", ")", ";", "\n", " ", " ", "a", "l", "w",
      "a", "y", "s", " ", "@", "(", "p", "o", "s", "e", "d", "g", "e", " ",
      "c", "l", "k", " ", "o", "r", " ", "p", "o", "s", "e", "d", "g", "e",
      " ", "r", "s", "t", ")", " ", "b", "e", "g", "i", "n", "\n", " ",
      " ", " ", " ", "i", "f", " ", "(", "r", "s", "t", ")", " ", "c", "o",
      "u", "n", "t", " ", "<", "=", " ", "8", "'", "h", "0", "0", ";",
      "\n", " ", " ", " ", " ", "e", "l", "s", "e", " ", " ", " ", " ",
      " ", "c", "o", "u", "n", "t", " ", "<", "=", " ", "c", "o", "u", "n",
      "t", " ", "+", " ", "1", ";", "\n", " ", " ", "e", "n", "d", "\n",
      "e", "n", "d", "m", "o", "d", "u", "l", "e", "\n">>

\* S2, latch inference
SourceS2 ==
    <<"m", "o", "d", "u", "l", "e", " ", "m", "(", "i", "n", "p", "u", "t",
      " ", "a", ",", " ", "o", "u", "t", "p", "u", "t", " ", "r", "e", "g",
      " ", "y", ")", ";", "\n", " ", " ", "a", "l", "w", "a", "y", "s",
      " ", "@", "(", "*", ")", " ", "b", "e", "g", "i", "n", "\n", " ",
      " ", " ", " ", "i", "f", " ", "(", "a", ")", " ", "y", " ", "<", "=",
      " ", "1", "'", "b", "1", ";", "\n", " ", " ", "e", "n", "d", "\n",
      "e", "n", "d", "m", "o", "d", "u", "l", "e", "\n">>

\* S3, width mismatch, as written
SourceS3 ==
    <<"m", "o", "d", "u", "l", "e", " ", "m", "(", "i", "n", "p", "u", "t",
      " ", "[", "3", ":", "0", "]", " ", "a", ",", " ", "i", "n", "p", "u",
      "t", " ", "[", "3", ":", "0", "]", " ", "b", ",", " ", "o", "u", "t",
      "p", "u", "t", " ", "r", "e", "g", " ", "[", "3", ":", "0", "]", " ",
      "s", ")", ";", "\n", " ", " ", "a", "l", "w", "a", "y", "s", " ",
      "@", "(", "*", ")", " ", "s", " ", "=", " ", "a", " ", "+", " ", "b",
      ";", "\n", "e", "n", "d", "m", "o", "d", "u", "l", "e", "\n">>

\* S3 with the assignment written <=
SourceS3NonBlocking ==
    <<"m", "o", "d", "u", "l", "e", " ", "m", "(", "i", "n", "p", "u", "t",
      " ", "[", "3", ":", "0", "]", " ", "a", ",", " ", "i", "n", "p", "u",
      "t", " ", "[", "3", ":", "0", "]", " ", "b", ",", " ", "o", "u", "t",
      "p", "u", "t", " ", "r", "e", "g", " ", "[", "3", ":", "0", "]", " ",
      "s", ")", ";", "\n", " ", " ", "a", "l", "w", "a", "y", "s", " ",
      "@", "(", "*", ")", " ", "s", " ", "<", "=", " ", "a", " ", "+", " ",
      "b", ";", "\n", "e", "n", "d", "m", "o", "d", "u", "l", "e", "\n">>

\* S4, constant overflow, as written
SourceS4 ==
    <<"m", "o", "d", "u", "l", "e", " ", "m", "(", "i", "n", "p", "u", "t",
      " ", "x", ",", " ", "o", "u", "t", "p", "u", "t", " ", "r", "e", "g",
      " ", "[", "7", ":", "0", "]", " ", "y", ")", ";", "\n", " ", " ",
      "p", "a", "r", "a", "m", "e", "t", "e", "r", " ", "A", " ", "=", " ",
      "8", "'", "h", "F", "F", ";", "\n", " ", " ", "p", "a", "r", "a",
      "m", "e", "t", "e", "r", " ", "B", " ", "=", " ", "8", "'", "h", "0",
      "2", ";", "\n", " ", " ", "a", "l", "w", "a", "y", "s", " ", "@",
      "(", "*", ")", " ", "y", " ", "=", " ", "A", " ", "+", " ", "B", ";",
      "\n", "e", "n", "d", "m", "o", "d", "u", "l", "e", "\n">>

\* S4 with the parameters in the header and the assignment written <=
SourceS4Header ==
    <<"m", "o", "d", "u", "l", "e", " ", "m", " ", "#", "(", "p", "a", "r",
      "a", "m", "e", "t", "e", "r", " ", "A", " ", "=", " ", "8", "'", "h",
      "F", "F", ",", " ", "p", "a", "r", "a", "m", "e", "t", "e", "r", " ",
      "B", " ", "=", " ", "8", "'", "h", "0", "2", ")", " ", "(", "i", "n",
      "p", "u", "t", " ", "x", ",", " ", "o", "u", "t", "p", "u", "t", " ",
      "r", "e", "g", " ", "[", "7", ":", "0", "]", " ", "y", ")", ";",
      "\n", " ", " ", "a", "l", "w", "a", "y", "s", " ", "@", "(", "*",
      ")", " ", "y", " ", "<", "=", " ", "A", " ", "+", " ", "B", ";",
      "\n", "e", "n", "d", "m", "o", "d", "u", "l", "e", "\n">>

\* S5, unreachable state, as written
SourceS5 ==
    <<"m", "o", "d", "u", "l", "e", " ", "m", "(", "i", "n", "p", "u", "t",
      " ", "c", "l", "k", ",", " ", "o", "u", "t", "p", "u", "t", " ", "r",
      "e", "g", " ", "[", "1", ":", "0", "]", " ", "s", ")", ";", "\n",
      " ", " ", "p", "a", "r", "a", "m", "e", "t", "e", "r", " ", "S", "T",
      "A", "T", "E", "_", "A", " ", "=", " ", "2", "'", "d", "0", ";",
      "\n", " ", " ", "p", "a", "r", "a", "m", "e", "t", "e", "r", " ",
      "S", "T", "A", "T", "E", "_", "B", " ", "=", " ", "2", "'", "d", "1",
      ";", "\n", " ", " ", "p", "a", "r", "a", "m", "e", "t", "e", "r",
      " ", "S", "T", "A", "T", "E", "_", "C", " ", "=", " ", "2", "'", "d",
      "2", ";", "\n", " ", " ", "a", "l", "w", "a", "y", "s", " ", "@",
      "(", "p", "o", "s", "e", "d", "g", "e", " ", "c", "l", "k", ")", " ",
      "c", "a", "s", "e", " ", "(", "s", ")", " ", "S", "T", "A", "T", "E",
      "_", "A", ":", " ", "s", " ", "<", "=", " ", "S", "T", "A", "T", "E",
      "_", "B", ";", " ", "S", "T", "A", "T", "E", "_", "B", ":", " ", "s",
      " ", "<", "=", " ", "S", "T", "A", "T", "E", "_", "A", ";", " ", "d",
      "e", "f", "a", "u", "l", "t", ":", " ", "s", " ", "<", "=", " ", "S",
      "T", "A", "T", "E", "_", "A", ";", " ", "e", "n", "d", "c", "a", "s",
      "e", "\n", "e", "n", "d", "m", "o", "d", "u", "l", "e", "\n">>

\* S5 with the parameters in the header
SourceS5Header ==
    <<"m", "o", "d", "u", "l", "e", " ", "m", " ", "#", "(", "p", "a", "r",
      "a", "m", "e", "t", "e", "r", " ", "S", "T", "A", "T", "E", "_", "A",
      " ", "=", " ", "2", "'", "d", "0", ",", " ", "p", "a", "r", "a", "m",
      "e", "t", "e", "r", " ", "S", "T", "A", "T", "E", "_", "B", " ", "=",
      " ", "2", "'", "d", "1", ",", " ", "p", "a", "r", "a", "m", "e", "t",
      "e", "r", " ", "S", "T", "A", "T", "E", "_", "C", " ", "=", " ", "2",
      "'", "d", "2", ")", " ", "(", "i", "n", "p", "u", "t", " ", "c", "l",
      "k", ",", " ", "o", "u", "t", "p", "u", "t", " ", "r", "e", "g", " ",
      "[", "1", ":", "0", "]", " ", "s", ")", ";", "\n", " ", " ", "a",
      "l", "w", "a", "y", "s", " ", "@", "(", "p", "o", "s", "e", "d", "g",
      "e", " ", "c", "l", "k", ")", " ", "c", "a", "s", "e", " ", "(", "s",
      ")", " ", "S", "T", "A", "T", "E", "_", "A", ":", " ", "s", " ", "<",
      "=", " ", "S", "T", "A", "T", "E", "_", "B", ";", " ", "S", "T", "A",
      "T", "E", "_", "B", ":", " ", "s", " ", "<", "=", " ", "S", "T", "A",
      "T", "E", "_", "A", ";", " ", "d", "e", "f", "a", "u", "l", "t", ":",
      " ", "s", " ", "<", "=", " ", "S", "T", "A", "T", "E", "_", "A", ";",
      " ", "e", "n", "d", "c", "a", "s", "e", "\n", "e", "n", "d", "m",
      "o", "d", "u", "l", "e", "\n">>

\* S6, multi-driven
SourceS6 ==
    <<"m", "o", "d", "u", "l", "e", " ", "m", "(", "i", "n", "p", "u", "t",
      " ", "c", "l", "k", ",", " ", "o", "u", "t", "p", "u", "t", " ", "r",
      "e", "g", " ", "q", ")", ";", "\n", " ", " ", "a", "l", "w", "a",
      "y", "s", " ", "@", "(", "p", "o", "s", "e", "d", "g", "e", " ", "c",
      "l", "k", ")", " ", "q", " ", "<", "=", " ", "1", "'", "b", "0", ";",
      "\n", " ", " ", "a", "l", "w", "a", "y", "s", " ", "@", "(", "p",
      "o", "s", "e", "d", "g", "e", " ", "c", "l", "k", ")", " ", "q", " ",
      "<", "=", " ", "1", "'", "b", "1", ";", "\n", "e", "n", "d", "m",
      "o", "d", "u", "l", "e", "\n">>

\* a reg declared in the module body and never assigned
SourceBodyRegister ==
    <<"m", "o", "d", "u", "l", "e", " ", "m", "(", "i", "n", "p", "u", "t",
      " ", "c", "l", "k", ",", " ", "o", "u", "t", "p", "u", "t", " ", "r",
      "e", "g", " ", "q", ")", ";", "\n", " ", " ", "r", "e", "g", " ",
      "[", "3", ":", "0", "]", " ", "r", ";", "\n", " ", " ", "a", "l",
      "w", "a", "y", "s", " ", "@", "(", "p", "o", "s", "e", "d", "g", "e",
      " ", "c", "l", "k", ")", " ", "q", " ", "<", "=", " ", "1", "'", "b",
      "0", ";", "\n", "e", "n", "d", "m", "o", "d", "u", "l", "e", "\n">>

\* an output reg that no always block assigns
SourceUndriven ==
    <<"m", "o", "d", "u", "l", "e", " ", "m", "(", "i", "n", "p", "u", "t",
      " ", "a", ",", " ", "o", "u", "t", "p", "u", "t", " ", "r", "e", "g",
      " ", "y", ",", " ", "o", "u", "t", "p", "u", "t", " ", "r", "e", "g",
      " ", "z", ")", ";", "\n", " ", " ", "/", "/", " ", "z", " ", "i",
      "s", " ", "l", "e", "f", "t", " ", "a", "l", "o", "n", "e", "\n",
      " ", " ", "a", "l", "w", "a", "y", "s", " ", "@", "(", "a", ")", " ",
      "i", "f", " ", "(", "a", ")", " ", "y", " ", "<", "=", " ", "1", "'",
      "b", "1", ";", " ", "e", "l", "s", "e", " ", "y", " ", "<", "=", " ",
      "1", "'", "b", "0", ";", "\n", "e", "n", "d", "m", "o", "d", "u",
      "l", "e", "\n">>

\* a case without default in an edge-triggered block
SourceSequentialCase ==
    <<"m", "o", "d", "u", "l", "e", " ", "m", "(", "i", "n", "p", "u", "t",
      " ", "c", "l", "k", ",", " ", "i", "n", "p", "u", "t", " ", "[", "1",
      ":", "0", "]", " ", "a", ",", " ", "o", "u", "t", "p", "u", "t", " ",
      "r", "e", "g", " ", "q", ")", ";", "\n", " ", " ", "/", "*", " ",
      "n", "o", " ", "d", "e", "f", "a", "u", "l", "t", " ", "a", "r", "m",
      " ", "*", "/", "\n", " ", " ", "a", "l", "w", "a", "y", "s", " ",
      "@", "(", "n", "e", "g", "e", "d", "g", "e", " ", "c", "l", "k", ")",
      " ", "c", "a", "s", "e", " ", "(", "a", ")", " ", "2", "'", "d", "0",
      ":", " ", "q", " ", "<", "=", " ", "1", "'", "b", "0", ";", " ", "2",
      "'", "d", "1", ":", " ", "q", " ", "<", "=", " ", "1", "'", "b", "1",
      ";", " ", "e", "n", "d", "c", "a", "s", "e", "\n", "e", "n", "d",
      "m", "o", "d", "u", "l", "e", "\n">>

\* an assignment with no right-hand side
SourceMissingOperand ==
    <<"m", "o", "d", "u", "l", "e", " ", "m", "(", "i", "n", "p", "u", "t",
      " ", "a", ",", " ", "o", "u", "t", "p", "u", "t", " ", "r", "e", "g",
      " ", "y", ")", ";", "\n", " ", " ", "a", "l", "w", "a", "y", "s",
      " ", "@", "(", "*", ")", " ", "y", " ", "<", "=", " ", ";", "\n",
      "e", "n", "d", "m", "o", "d", "u", "l", "e", "\n">>

\* a module item that is not an always block
SourceInitial ==
    <<"m", "o", "d", "u", "l", "e", " ", "m", "(", "i", "n", "p", "u", "t",
      " ", "a", ",", " ", "o", "u", "t", "p", "u", "t", " ", "r", "e", "g",
      " ", "y", ")", ";", "\n", " ", " ", "i", "n", "i", "t", "i", "a",
      "l", " ", "y", " ", "<", "=", " ", "a", ";", "\n", "e", "n", "d",
      "m", "o", "d", "u", "l", "e", "\n">>

\* a sensitivity list with an edge and no signal
SourceBareEdge ==
    <<"m", "o", "d", "u", "l", "e", " ", "m", "(", "i", "n", "p", "u", "t",
      " ", "a", ",", " ", "o", "u", "t", "p", "u", "t", " ", "r", "e", "g",
      " ", "y", ")", ";", "\n", " ", " ", "a", "l", "w", "a", "y", "s",
      " ", "@", "(", "p", "o", "s", "e", "d", "g", "e", ")", " ", "y", " ",
      "<", "=", " ", "a", ";", "\n", "e", "n", "d", "m", "o", "d", "u",
      "l", "e", "\n">>

\* a module without a name
SourceNoName ==
    <<"m", "o", "d", "u", "l", "e", " ", "(", "i", "n", "p", "u", "t", " ",
      "a", ")", ";", "\n", "e", "n", "d", "m", "o", "d", "u", "l", "e",
      "\n">>

\* a statement that starts with a number
SourceNumberStatement ==
    <<"m", "o", "d", "u", "l", "e", " ", "m", "(", "i", "n", "p", "u", "t",
      " ", "a", ",", " ", "o", "u", "t", "p", "u", "t", " ", "r", "e", "g",
      " ", "y", ")", ";", "\n", " ", " ", "a", "l", "w", "a", "y", "s",
      " ", "@", "(", "*", ")", " ", "5", " ", "<", "=", " ", "a", ";",
      "\n", "e", "n", "d", "m", "o", "d", "u", "l", "e", "\n">>

\* the empty file
SourceEmpty ==
    <<>>

\* text after endmodule
SourceTrailing ==
    <<"m", "o", "d", "u", "l", "e", " ", "m", "(", "i", "n", "p", "u", "t",
      " ", "a", ")", ";", "\n", "e", "n", "d", "m", "o", "d", "u", "l",
      "e", "\n", ")", "\n">>

\* a sensitivity list that holds a number
SourceNumberSensitivity ==
    <<"m", "o", "d", "u", "l", "e", " ", "m", "(", "i", "n", "p", "u", "t",
      " ", "a", ",", " ", "o", "u", "t", "p", "u", "t", " ", "r", "e", "g",
      " ", "y", ")", ";", "\n", " ", " ", "a", "l", "w", "a", "y", "s",
      " ", "@", "(", "5", ")", " ", "y", " ", "<", "=", " ", "a", ";",
      "\n", "e", "n", "d", "m", "o", "d", "u", "l", "e", "\n">>

\* a file that ends inside a sensitivity list
SourceOpenSensitivity ==
    <<"m", "o", "d", "u", "l", "e", " ", "m", "(", "i", "n", "p", "u", "t",
      " ", "a", ",", " ", "o", "u", "t", "p", "u", "t", " ", "r", "e", "g",
      " ", "y", ")", ";", "\n", " ", " ", "a", "l", "w", "a", "y", "s",
      " ", "@", "(", "a">>

\* a continuous assignment
SourceAssign ==
    <<"m", "o", "d", "u", "l", "e", " ", "m", "(", "i", "n", "p", "u", "t",
      " ", "a", ",", " ", "o", "u", "t", "p", "u", "t", " ", "w", ")", ";",
      "\n", " ", " ", "a", "s", "s", "i", "g", "n", " ", "w", " ", "=",
      " ", "a", ";", "\n", "e", "n", "d", "m", "o", "d", "u", "l", "e",
      "\n">>

\* a reg declared after an always block
SourceRegAfterAlways ==
    <<"m", "o", "d", "u", "l", "e", " ", "m", "(", "i", "n", "p", "u", "t",
      " ", "c", "l", "k", ",", " ", "o", "u", "t", "p", "u", "t", " ", "r",
      "e", "g", " ", "q", ")", ";", "\n", " ", " ", "a", "l", "w", "a",
      "y", "s", " ", "@", "(", "p", "o", "s", "e", "d", "g", "e", " ", "c",
      "l", "k", ")", " ", "q", " ", "<", "=", " ", "1", "'", "b", "0", ";",
      "\n", " ", " ", "r", "e", "g", " ", "r", ";", "\n", "e", "n", "d",
      "m", "o", "d", "u", "l", "e", "\n">>

\* a statement whose target is followed by +
SourceNoAssignOperator ==
    <<"m", "o", "d", "u", "l", "e", " ", "m", "(", "i", "n", "p", "u", "t",
      " ", "a", ",", " ", "o", "u", "t", "p", "u", "t", " ", "r", "e", "g",
      " ", "y", ")", ";", "\n", " ", " ", "a", "l", "w", "a", "y", "s",
      " ", "@", "(", "*", ")", " ", "y", " ", "+", " ", "a", ";", "\n",
      "e", "n", "d", "m", "o", "d", "u", "l", "e", "\n">>

\* a block comment that is never closed
SourceOpenComment ==
    <<"m", "o", "d", "u", "l", "e", " ", "m", "(", "i", "n", "p", "u", "t",
      " ", "a", ")", ";", " ", "/", "*", " ", "e", "n", "d", "m", "o", "d",
      "u", "l", "e">>


\* ports whose ranges are written [0:7] and [0:1]
SourceReversedRange ==
    <<"m", "o", "d", "u", "l", "e", " ", "m", "(", "i", "n", "p", "u", "t",
      " ", "c", "l", "k", ",", " ", "i", "n", "p", "u", "t", " ", "[", "0",
      ":", "7", "]", " ", "a", ",", " ", "i", "n", "p", "u", "t", " ", "[",
      "0", ":", "1", "]", " ", "b", ",", " ", "o", "u", "t", "p", "u", "t",
      " ", "r", "e", "g", " ", "[", "3", ":", "0", "]", " ", "y", ")", ";",
      "\n", " ", " ", "a", "l", "w", "a", "y", "s", " ", "@", "(", "p", "o",
      "s", "e", "d", "g", "e", " ", "c", "l", "k", ")", " ", "y", " ", "<",
      "=", " ", "a", ";", "\n", "e", "n", "d", "m", "o", "d", "u", "l", "e",
      "\n">>

\* a case whose arm and whose default, written last, both assign too wide a value
SourceCaseOrder ==
    <<"m", "o", "d", "u", "l", "e", " ", "m", " ", "#", "(", "p", "a", "r",
      "a", "m", "e", "t", "e", "r", " ", "S", "T", "A", "T", "E", "_", "X",
      " ", "=", " ", "1", ")", " ", "(", "i", "n", "p", "u", "t", " ", "c",
      "l", "k", ",", " ", "i", "n", "p", "u", "t", " ", "[", "3", ":", "0",
      "]", " ", "a", ",", " ", "o", "u", "t", "p", "u", "t", " ", "r", "e",
      "g", " ", "[", "1", ":", "0", "]", " ", "y", ",", " ", "o", "u", "t",
      "p", "u", "t", " ", "r", "e", "g", " ", "[", "2", ":", "0", "]", " ",
      "z", ",", " ", "o", "u", "t", "p", "u", "t", " ", "r", "e", "g", " ",
      "u", ")", ";", "\n", " ", " ", "a", "l", "w", "a", "y", "s", " ", "@",
      "(", "p", "o", "s", "e", "d", "g", "e", " ", "c", "l", "k", ")", " ",
      "c", "a", "s", "e", " ", "(", "a", ")", " ", "4", "'", "d", "1", ":",
      " ", "y", " ", "<", "=", " ", "a", ";", " ", "d", "e", "f", "a", "u",
      "l", "t", ":", " ", "z", " ", "<", "=", " ", "a", ";", " ", "e", "n",
      "d", "c", "a", "s", "e", "\n", "e", "n", "d", "m", "o", "d", "u", "l",
      "e", "\n">>

Sources ==
    {SourceS1, SourceS2, SourceS3,
     SourceS3NonBlocking, SourceS4, SourceS4Header,
     SourceS5, SourceS5Header, SourceS6,
     SourceBodyRegister, SourceUndriven, SourceSequentialCase,
     SourceMissingOperand, SourceInitial, SourceBareEdge,
     SourceNoName, SourceNumberStatement, SourceEmpty,
     SourceTrailing, SourceNumberSensitivity, SourceOpenSensitivity,
     SourceAssign, SourceRegAfterAlways, SourceNoAssignOperator,
     SourceOpenComment, SourceReversedRange, SourceCaseOrder}

\* the Module main hands to analyze_module for a source the parser accepts
ParsedModule(src) ==
    With(Tokens(src), LAMBDA tokens :
        parse_module_definition(tokens, ParserConstructed(tokens)).val)

(***************************************************************************)
(* The modules analyze_module is given: the scenarios the parser accepts   *)
(* and three bounded families:                                             *)
(*   - block families: up to MaxBlocks always blocks with small bodies,    *)
(*   - statement families: one always block with a body nested up to       *)
(*     MaxDepth deep,                                                      *)
(*   - parameter families: up to MaxParams parameters (names may repeat)   *)
(*     and always blocks with case statements.                             *)
(***************************************************************************)
MaxBlocks == 2
MaxDepth == 2
MaxParams == 2

NameA == <<"a">>
NameQ == <<"q">>
NameY == <<"y">>
NameW == <<"w">>
NameT == <<"t">>
NameClk == <<"c","l","k">>
NameStateA == <<"S","T","A","T","E","_","A">>
NameMyStateX == <<"M","Y","_","S","T","A","T","E","_","X">>
NameLowerState == <<"s","t","a","t","e","_","b">>
NameIdle == <<"I","D","L","E">>

ExprA == Identifier(NameA)
ExprSum == BinaryExpression(<<"+">>, Identifier(NameA), Identifier(NameA))
ExprOne == Number(<<"1","'","b","1">>)
ExprZero == Number(<<"1","'","b","0">>)
ExprQ == Identifier(NameQ)

Range30 == <<BitRange(Number(<<"3">>), Number(<<"0">>))>>
Range70 == <<BitRange(Number(<<"7">>), Number(<<"0">>))>>

\* input [3:0] a, output reg [3:0] q, output reg y, output [7:0] w
GenPorts == <<Port("Input", FALSE, Range30, NameA),
              Port("Output", TRUE, Range30, NameQ),
              Port("Output", TRUE, <<>>, NameY),
              Port("Output", FALSE, Range70, NameW)>>

AssignQA == NonBlockingAssignment(ExprQ, ExprA)
AssignQSum == NonBlockingAssignment(ExprQ, ExprSum)
AssignYOne == NonBlockingAssignment(Identifier(NameY), ExprOne)
AssignYA == NonBlockingAssignment(Identifier(NameY), ExprA)
AssignTA == NonBlockingAssignment(Identifier(NameT), ExprA)
AssignSumA == NonBlockingAssignment(ExprSum, ExprA)

Atoms == {AssignQA, AssignQSum, AssignYOne, AssignYA, AssignTA, AssignSumA}

\* the statements that nest a statement s one level deeper
Wrap(s) ==
    {IfStatement(ExprA, s, <<>>),
     IfStatement(ExprZero, s, <<AssignYOne>>),
     IfStatement(ExprA, AssignQA, <<s>>),
     BlockStatement(<<AssignQA, s>>),
     BlockStatement(<<s, AssignYOne>>),
     CaseStatement(ExprQ, <<<<Identifier(NameStateA), s>>>>, <<>>),
     CaseStatement(ExprQ, <<<<Number(<<"2","'","d","1">>), AssignQA>>,
                            <<Identifier(NameMyStateX), s>>>>, <<AssignYOne>>),
     CaseStatement(ExprQ, <<>>, <<s>>)}

RECURSIVE Statements(_)
Statements(depth) ==
    IF depth = 0 THEN Atoms
    ELSE Atoms \cup UNION {Wrap(s) : s \in Statements(depth - 1)}

SensCombinational == <<Sensitivity("None", <<"*">>)>>
SensPosedge == <<Sensitivity("PositiveEdge", NameClk)>>
SensMixed == <<Sensitivity("None", NameA), Sensitivity("NegativeEdge", NameClk)>>
SensitivityLists == {SensCombinational, SensPosedge, SensMixed}

RECURSIVE SeqsUpTo(_, _)
\* the sequences over S of length at most n
SeqsUpTo(S, n) ==
    IF n = 0 THEN {<<>>}
    ELSE SeqsUpTo(S, n - 1)
         \cup {Append(q, x) : q \in {r \in SeqsUpTo(S, n - 1) : Len(r) = n - 1},
                              x \in S}

ParamStateA == Parameter(NameStateA, Number(<<"2","'","d","0">>))
ParamMyStateX == Parameter(NameMyStateX, Number(<<"2","'","d","1">>))
ParamLowerState == Parameter(NameLowerState, Number(<<"2","'","d","2">>))
ParamIdle == Parameter(NameIdle, Number(<<"3">>))
ParamChoices == {ParamStateA, ParamMyStateX, ParamLowerState, ParamIdle}

SmallBodies ==
    {AssignQA, AssignYOne, BlockStatement(<<AssignQA, AssignQSum>>),
     IfStatement(ExprA, AssignQA, <<AssignYOne>>)}

BlockFamily ==
    {Module(<<"m">>, <<>>, GenPorts, items) :
        items \in SeqsUpTo({AlwaysBlock(sens, body) :
                               sens \in {SensCombinational, SensPosedge},
                               body \in SmallBodies}, MaxBlocks)}

StatementFamily ==
    {Module(<<"m">>, <<ParamStateA, ParamMyStateX>>, GenPorts,
            <<AlwaysBlock(sens, body)>>) :
        sens \in SensitivityLists, body \in Statements(MaxDepth)}

CaseBodies ==
    {CaseStatement(ExprQ, <<<<Identifier(NameStateA), AssignQA>>>>, <<>>),
     CaseStatement(ExprQ, <<<<Identifier(NameMyStateX), AssignQA>>,
                            <<Identifier(NameLowerState), AssignQA>>>>,
                   <<AssignQA>>),
     IfStatement(ExprA, AssignQA,
         <<CaseStatement(ExprQ, <<<<Identifier(NameIdle), AssignQA>>,
                                  <<Number(<<"2","'","d","0">>), AssignQA>>>>,
                         <<>>)>>)}

ParameterFamily ==
    {Module(<<"m">>, params, GenPorts, items) :
        params \in SeqsUpTo(ParamChoices, MaxParams),
        items \in SeqsUpTo({AlwaysBlock(SensPosedge, body) : body \in CaseBodies},
                           MaxBlocks)}

ModuleS1 == ParsedModule(SourceS1)
ModuleS2 == ParsedModule(SourceS2)
ModuleS5 == ParsedModule(SourceS5Header)
ModuleS6 == ParsedModule(SourceS6)
ScenarioModules == {ModuleS1, ModuleS2, ModuleS5, ModuleS6}

Modules ==
    ScenarioModules \cup BlockFamily \cup StatementFamily \cup ParameterFamily

(***************************************************************************)
(* Spec: analyze_module and print_linter_report on a given Module.         *)
(***************************************************************************)
Init ==
    /\ source = <<>>
    /\ verilog_module \in Modules
    /\ pc = FirstPass(verilog_module)
    /\ next_index = 1
    /\ LinterConstructed
    /\ std_out = <<>>
    /\ std_err = <<>>
    /\ exit_status = -1
    /\ returned = <<>>

Next ==
    \/ AnalyzeParameter
    \/ AnalyzePort
    \/ AnalyzeAlwaysBlock
    \/ check_for_unreachable_finite_state_machine_states
    \/ check_for_uninitialized_registers
    \/ print_linter_report

Spec == Init /\ [][Next]_vars

(***************************************************************************)
(* main on a source file: the parser, then the linter.                     *)
(***************************************************************************)
\* main, the construction of the parser and parse_module_definition
ParseSource ==
    /\ pc = "start"
    /\ \E tokens \in {Tokens(source)} :
       \E parsed \in {parse_module_definition(tokens, ParserConstructed(tokens))} :
        /\ verilog_module' =
               IF parsed.status = "ok" THEN parsed.val ELSE verilog_module
        /\ std_err' =
               IF parsed.status = "exit" THEN Append(std_err, parsed.err)
               ELSE std_err
        /\ exit_status' = IF parsed.status = "exit" THEN 1 ELSE exit_status
        /\ pc' = IF parsed.status = "ok" THEN "banner"
                 ELSE IF parsed.status = "exit" THEN "exited" ELSE "looping"
    /\ UNCHANGED <<source, returned, next_index, current_linter_context, linter_violations,
                   evaluated_parameter_values, evaluated_signal_widths,
                   register_driven_by_block, is_register_written_to,
                   finite_state_machine_states, used_case_statement_items,
                   std_out>>

\* main, the lines printed before the linter runs
PrintBanner ==
    /\ pc = "banner"
    /\ std_out' = std_out \o <<"=== PARSED VERILOG MODULE ===",
                               "Module Name: " \o Str(verilog_module.module_name),
                               "", "Running Linter...">>
    /\ pc' = FirstPass(verilog_module)
    /\ UNCHANGED <<source, returned, verilog_module, next_index, current_linter_context,
                   linter_violations, evaluated_parameter_values,
                   evaluated_signal_widths, register_driven_by_block,
                   is_register_written_to, finite_state_machine_states,
                   used_case_statement_items, std_err, exit_status>>

(***************************************************************************)
(* SpecSrc: main on a source file.                                         *)
(***************************************************************************)
InitSrc ==
    /\ source \in Sources
    /\ verilog_module = NoModule
    /\ pc = "start"
    /\ next_index = 1
    /\ LinterConstructed
    /\ std_out = <<>>
    /\ std_err = <<>>
    /\ exit_status = -1
    /\ returned = <<>>

NextSrc ==
    \/ ParseSource
    \/ PrintBanner
    \/ AnalyzeParameter
    \/ AnalyzePort
    \/ AnalyzeAlwaysBlock
    \/ check_for_unreachable_finite_state_machine_states
    \/ check_for_uninitialized_registers
    \/ print_linter_report

SpecSrc == InitSrc /\ [][NextSrc]_vars

(***************************************************************************)
(* Vocabulary of the properties: what a module contains, counted from the  *)
(* AST alone, and where the run is.                                        *)
(***************************************************************************)
Count(message) ==
    Cardinality({i \in 1..Len(linter_violations) : linter_violations[i] = message})

RECURSIVE Flatten(_)
RECURSIVE FlattenAll(_)
\* a statement and every statement nested in it, in source order
Flatten(s) ==
    <<s>> \o
    (IF s.k = "IfStatement"
     THEN Flatten(s.true_branch_statement) \o FlattenAll(s.false_branch_statement)
     ELSE IF s.k = "BlockStatement" THEN FlattenAll(s.contained_statements)
     ELSE IF s.k = "CaseStatement"
     THEN FlattenAll([i \in 1..Len(s.case_branches) |-> s.case_branches[i][2]])
          \o FlattenAll(s.default_branch_statement)
     ELSE <<>>)
FlattenAll(stmts) ==
    IF stmts = <<>> THEN <<>> ELSE Flatten(Head(stmts)) \o FlattenAll(Tail(stmts))

BlockStatements(b) == Flatten(verilog_module.module_items[b].body_statement)

\* the places <<block, position>> of the statements of the first k blocks
Places(k) ==
    UNION {{<<b, i>> : i \in 1..Len(BlockStatements(b))} : b \in 1..k}
StatementAt(place) == BlockStatements(place[1])[place[2]]

BlocksAnalysed == pc \in {"fsm_check", "uninit_check", "report", "done"}
FsmChecked == pc \in {"uninit_check", "report", "done"}
Finished == pc \in {"report", "done"}

\* how many always blocks the walk has been through
Walked ==
    IF pc = "items" THEN next_index - 1
    ELSE IF BlocksAnalysed THEN Len(verilog_module.module_items) ELSE 0

AllPlaces == Places(Len(verilog_module.module_items))

\* no entry of the sensitivity list names an edge
LevelSensitive(b) ==
    ~ \E i \in 1..Len(verilog_module.module_items[b].sensitivity_list) :
        verilog_module.module_items[b].sensitivity_list[i].edge_trigger_type
            \in {"PositiveEdge", "NegativeEdge"}

AssignsTo(statement, n) ==
    /\ statement.k = "NonBlockingAssignment"
    /\ statement.left_hand_side_expression.k = "Identifier"
    /\ statement.left_hand_side_expression.identifier_name = n

BlocksAssigning(n) ==
    {b \in 1..Len(verilog_module.module_items) :
        \E i \in 1..Len(BlockStatements(b)) : AssignsTo(BlockStatements(b)[i], n)}

AssignedNames ==
    {StatementAt(p).left_hand_side_expression.identifier_name :
        p \in {q \in AllPlaces :
                  /\ StatementAt(q).k = "NonBlockingAssignment"
                  /\ StatementAt(q).left_hand_side_expression.k = "Identifier"}}

PortNames ==
    {verilog_module.module_ports[i].port_name :
        i \in 1..Len(verilog_module.module_ports)}
ParameterNames ==
    {verilog_module.module_parameters[i].parameter_name :
        i \in 1..Len(verilog_module.module_parameters)}
OutputRegisters ==
    {verilog_module.module_ports[i].port_name :
        i \in {j \in 1..Len(verilog_module.module_ports) :
                  /\ verilog_module.module_ports[j].is_register_type
                  /\ verilog_module.module_ports[j].direction = "Output"}}

\* the plain identifiers that select an arm of some case statement
SelectorNames ==
    UNION {{StatementAt(p).case_branches[i][1].identifier_name :
               i \in {j \in 1..Len(StatementAt(p).case_branches) :
                         StatementAt(p).case_branches[j][1].k = "Identifier"}} :
           p \in {q \in AllPlaces : StatementAt(q).k = "CaseStatement"}}

\* the name has the five letters S, T, A, T, E in a row
HasSTATE(name) ==
    \E i \in 1..Len(name) :
        /\ i + 4 <= Len(name)
        /\ name[i] = "S" /\ name[i + 1] = "T" /\ name[i + 2] = "A"
        /\ name[i + 3] = "T" /\ name[i + 4] = "E"

Declarations(n) ==
    Cardinality({i \in 1..Len(verilog_module.module_parameters) :
                    verilog_module.module_parameters[i].parameter_name = n})

(***************************************************************************)
(* Properties of main on the scenario sources (SpecSrc).                   *)
(***************************************************************************)

\* C1: scenario S1, linting the counter module (header parameter WIDTH = 8,
\* output reg [WIDTH-1:0] count, one edge-triggered block with
\* `if (rst) count <= 8'h00; else count <= count + 1;`), ends with an empty
\* violation list.
C1_CounterIsClean ==
    (source = SourceS1 /\ Finished) => linter_violations = <<>>

\* the counter is linted to the end and the report holds one violation: the
\* sum count + 1 is 33 bits wide for the 8-bit count
C1_Witness ==
    /\ source = SourceS1
    /\ pc = "done"
    /\ linter_violations =
           <<WidthMismatchMessage(U32(33), U32(8), <<"c","o","u","n","t">>)>>

\* C2: scenario S4: with parameters A = 8'hFF and B = 8'h02 and a
\* combinational block assigning A + B to the 8-bit output reg y, the source
\* is analysed, and the analysis emits a Constant Math Overflow violation
\* naming 255 and 2 and a width mismatch citing a 9-bit result assigned to
\* the 8-bit y.  Stated for the scenario as written and for its form with
\* the parameters in the module header and the assignment written <=.
C2_ConstantOverflow ==
    source \in {SourceS4, SourceS4Header} =>
        /\ pc # "exited"
        /\ Finished =>
            /\ Count("Constant Math Overflow: 255 + 2") >= 1
            /\ Count(WidthMismatchMessage(U32(9), U32(8), <<"y">>)) >= 1

\* with the parameters in the header, the report holds one violation: a
\* 33-bit result assigned to y, and no overflow
C2_Witness ==
    /\ source = SourceS4Header
    /\ pc = "done"
    /\ linter_violations = <<WidthMismatchMessage(U32(33), U32(8), <<"y">>)>>

\* the width evaluate_expression_properties infers for the right-hand side
\* of an assignment, with the tables as they are after the port pass
InferredWidth(statement) ==
    evaluate_expression_properties(statement.right_hand_side_expression,
                                   evaluated_parameter_values,
                                   evaluated_signal_widths,
                                   "mod64").bit_width_size

\* C3: for every assignment whose left-hand side is a plain identifier n
\* with a recorded width L and whose right-hand side has inferred width R,
\* a Structural Width Mismatch violation citing R, L and n is emitted if
\* and only if R > L; and scenario S3, written with = in an always @(*)
\* block, is analysed and emits exactly one such violation, citing 5 and 4
\* for s.
C3_WidthMismatch ==
    /\ BlocksAnalysed =>
        \A p \in AllPlaces : \A n \in DOMAIN evaluated_signal_widths :
            AssignsTo(StatementAt(p), n) =>
                (Count(WidthMismatchMessage(InferredWidth(StatementAt(p)),
                                            evaluated_signal_widths[n], n)) >= 1
                 <=> Less(evaluated_signal_widths[n],
                          InferredWidth(StatementAt(p))))
    /\ source = SourceS3 => pc # "exited"
    /\ (source = SourceS3 /\ Finished) =>
            Count(WidthMismatchMessage(U32(5), U32(4), <<"s">>)) = 1

\* scenario S3 as written stops in the parser, at the =
C3_Witness ==
    /\ source = SourceS3
    /\ pc = "exited"
    /\ std_err = <<"Syntax Error: Expected '<=' but got '='">>

\* the names a `reg` declaration of the module body declares: the
\* identifiers that end a declarator (before `,` or `;`) after a `reg`
\* that comes after the `;` of the module header
BodyRegisters(src) ==
    LET tokens == Tokens(src)
        IsText(i, text) == i \in 1..Len(tokens) /\ Str(tokens[i].content) = text
    IN  {tokens[j].content :
            j \in {m \in 1..Len(tokens) :
                      /\ tokens[m].type = "Identifier"
                      /\ (IsText(m + 1, ";") \/ IsText(m + 1, ","))
                      /\ \E r \in 1..(m - 1) :
                            /\ IsText(r, "reg")
                            /\ \E h \in 1..(r - 1) : IsText(h, ";")
                            /\ \A x \in r..m : ~IsText(x, ";")}}

\* C5: after analyze_module every tracked register (every output reg port
\* and every name declared by a reg declaration in the module body) has
\* exactly one Un-initialized Register violation if it was never the plain
\* identifier left-hand side of an assignment, and none if some always
\* block assigned it.
C5_UninitializedRegisters ==
    Finished =>
        \A n \in OutputRegisters \cup BodyRegisters(source) :
            Count(UninitializedMessage(n)) =
                IF n \in AssignedNames THEN 0 ELSE 1

\* a reg declared in the body and never assigned is linted to the end
\* without a violation naming it
C5_Witness ==
    /\ source = SourceBodyRegister
    /\ pc = "done"
    /\ <<"r">> \in BodyRegisters(source) \ AssignedNames
    /\ Count(UninitializedMessage(<<"r">>)) = 0

\* the texts a diagnostic of either form may carry for a source: the token
\* texts the grammar expects, and the texts of the source's tokens
ExpectedTexts ==
    Keywords \cup {"", "(", ")", ";", ":", ",", "@", "#", "=", "<=", "[", "]"}
ObservedTexts(src) ==
    {Str(Tokens(src)[i].content) : i \in 1..Len(Tokens(src))} \cup {""}
DiagnosticForms(src) ==
    {"Syntax Error: Expected '" \o t \o "' but got '" \o u \o "'" :
        t \in ExpectedTexts, u \in ObservedTexts(src)}
    \cup {"Syntax Error in Statement: " \o u : u \in ObservedTexts(src)}

\* the sources that do not follow the module grammar
NonConformingSources ==
    {SourceS4, SourceS5, SourceMissingOperand, SourceInitial, SourceBareEdge,
     SourceNoName, SourceNumberStatement, SourceEmpty}

\* C10: every input that does not conform to the module grammar makes the
\* parser fail fatally: the run ends in the parser, with exactly one
\* diagnostic line of the form `Syntax Error: Expected '<t>' but got '<u>'`
\* or `Syntax Error in Statement: <u>` on the error stream, a non-zero exit
\* status, and nothing of the linter: no banner, no violation, no report.
C10_FatalSyntaxError ==
    source \in NonConformingSources =>
        /\ pc \in {"start", "exited"}
        /\ pc = "exited" =>
            /\ exit_status # 0
            /\ Len(std_err) = 1
            /\ std_err[1] \in DiagnosticForms(source)
            /\ std_out = <<>>
            /\ linter_violations = <<>>

\* an assignment without a right-hand side is linted to the end, exit
\* status 0
C10_Witness ==
    /\ source = SourceMissingOperand
    /\ pc = "done"
    /\ exit_status = 0
    /\ std_err = <<>>

(***************************************************************************)
(* Properties of analyze_module on the module families (Spec).             *)
(***************************************************************************)

\* C4: once the always blocks are walked, a Multi-Driven Register violation
\* naming n has been emitted at least once if and only if n is the plain
\* identifier left-hand side of assignments in two or more distinct always
\* blocks; assignments to n inside one single block never emit it; scenario
\* S6 (two posedge blocks both assigning q) emits it for q.
C4_MultiDriven ==
    BlocksAnalysed =>
        /\ \A n \in AssignedNames \cup PortNames \cup ParameterNames :
              (Count(MultiDrivenMessage(n)) >= 1
               <=> Cardinality(BlocksAssigning(n)) >= 2)
        /\ verilog_module = ModuleS6 => Count(MultiDrivenMessage(<<"q">>)) >= 1

\* scenario S6 is linted to the end and q is reported multi-driven
C4_Witness ==
    /\ pc = "done"
    /\ verilog_module = ModuleS6
    /\ Cardinality(BlocksAssigning(<<"q">>)) = 2
    /\ Count(MultiDrivenMessage(<<"q">>)) >= 1

ElselessIfs(b) ==
    {i \in 1..Len(BlockStatements(b)) :
        /\ BlockStatements(b)[i].k = "IfStatement"
        /\ BlockStatements(b)[i].false_branch_statement = <<>>}

\* C7: at every point of the walk, the Infer Latch violations emitted are
\* one for each if without else, at any depth, of the walked blocks whose
\* sensitivity entries all have edge None; an if in a block with a posedge
\* or negedge entry emits none; scenario S2 emits exactly one.
C7_InferLatch ==
    /\ Count(InferLatchMessage) =
           Cardinality(UNION {{<<b, i>> : i \in ElselessIfs(b)} :
                              b \in {c \in 1..Walked : LevelSensitive(c)}})
    /\ (verilog_module = ModuleS2 /\ BlocksAnalysed) =>
           Count(InferLatchMessage) = 1

\* scenario S2 is linted to the end with its one latch reported
C7_Witness ==
    /\ pc = "done"
    /\ verilog_module = ModuleS2
    /\ LevelSensitive(1)
    /\ ElselessIfs(1) # {}
    /\ Count(InferLatchMessage) = 1

\* the case statements without default among the statements of block b
DefaultlessCases(b) ==
    {i \in 1..Len(BlockStatements(b)) :
        /\ BlockStatements(b)[i].k = "CaseStatement"
        /\ BlockStatements(b)[i].default_branch_statement = <<>>}

\* C8: a Non Full/Parallel Case violation is emitted for a case statement
\* if and only if it has no default arm and is inside a combinational
\* always block: the violations emitted are one for each case without
\* default of the walked combinational blocks, and a case without default
\* in an edge-triggered block emits none.
C8_NonFullCase ==
    Count(NonFullCaseMessage) =
        Cardinality(UNION {{<<b, i>> : i \in DefaultlessCases(b)} :
                           b \in {c \in 1..Walked : LevelSensitive(c)}})

\* a module whose one block is edge-triggered and holds a case without
\* default is linted to the end with the violation reported
C8_Witness ==
    /\ pc = "done"
    /\ Len(verilog_module.module_items) = 1
    /\ ~LevelSensitive(1)
    /\ DefaultlessCases(1) # {}
    /\ Count(NonFullCaseMessage) = Cardinality(DefaultlessCases(1))

\* the non-blocking assignments among the statements of block b
NonBlockingAssignments(b) ==
    {i \in 1..Len(BlockStatements(b)) :
        BlockStatements(b)[i].k = "NonBlockingAssignment"}

\* C9: every assignment whose flavor does not fit its block gets a Design
\* Practice violation: each non-blocking <= of the walked combinational
\* blocks emits "Design Practice: Using non-blocking assignment '<=' inside
\* a combinational block.", and the matching flavors (<= in edge-triggered
\* blocks) emit neither this nor "Design Practice: Using blocking
\* assignment '=' inside a sequential (edge-triggered) block.".
C9_DesignPractice ==
    /\ Count("Design Practice: Using non-blocking assignment '<=' inside a combinational block.") =
           Cardinality(UNION {{<<b, i>> : i \in NonBlockingAssignments(b)} :
                              b \in {c \in 1..Walked : LevelSensitive(c)}})
    /\ Count("Design Practice: Using blocking assignment '=' inside a sequential (edge-triggered) block.") = 0

\* scenario S2, a non-blocking assignment in an always @(*) block, is
\* linted to the end and the latch is all the report holds
C9_Witness ==
    /\ pc = "done"
    /\ verilog_module = ModuleS2
    /\ NonBlockingAssignments(1) # {}
    /\ linter_violations = <<InferLatchMessage>>

(***************************************************************************)
(* Properties of the parser on the sources (SpecSrc).                      *)
(***************************************************************************)

\* C11: for every finite source text, lexing and parse_module_definition
\* terminate, with a Module or with a fatal failure: no loop of the parser
\* goes round without consuming a token, whatever the lookahead is (a
\* NumberLiteral, a Keyword or the End token included), so the parse is
\* never in a loop that does not end.
C11_ParserTerminates ==
    pc # "looping"

\* the file ends inside a sensitivity list: with the End token as
\* lookahead the sensitivity loop goes round without consuming anything
C11_Witness ==
    /\ source = SourceOpenSensitivity
    /\ pc = "looping"
    /\ std_err = <<>>
    /\ exit_status = -1

(***************************************************************************)
(* SpecExpr: parse_expression on its own, on the tokens of an expression   *)
(* text: a chain  a op b op c ...  of up to MaxOperators operators, or one *)
(* of the two expressions of the precedence rule.                          *)
(***************************************************************************)
MaxOperators == 2

Operators ==
    {<<"+">>, <<"-">>, <<"=","=">>, <<"*">>, <<"/">>, <<"<","<">>, <<"&">>,
     <<"!","=">>}

\* the i-th operand of a chain: a, b, c, ...
OperandAt(i) == <<LowerChars[i]>>

RECURSIVE ChainText(_)
\* the text of the chain with the operators ops, one space between tokens
ChainText(ops) ==
    IF ops = <<>> THEN OperandAt(1)
    ELSE ChainText(SubSeq(ops, 1, Len(ops) - 1))
         \o <<" ">> \o ops[Len(ops)] \o <<" ">> \o OperandAt(Len(ops) + 1)

\* a + b * c == d
SourcePrecedence ==
    <<"a", " ", "+", " ", "b", " ", "*", " ", "c", " ", "=", "=", " ", "d">>
\* ( a + b ) * c
SourceParenthesised ==
    <<"(", " ", "a", " ", "+", " ", "b", " ", ")", " ", "*", " ", "c">>

ExpressionSources ==
    {ChainText(ops) : ops \in SeqsUpTo(Operators, MaxOperators)}
    \cup {SourcePrecedence, SourceParenthesised}

\* the state no linter and no stream takes part in
Idle ==
    /\ verilog_module = NoModule
    /\ next_index = 1
    /\ LinterConstructed
    /\ std_out = <<>>
    /\ std_err = <<>>
    /\ exit_status = -1
    /\ returned = <<>>

InitExpr ==
    /\ source \in ExpressionSources
    /\ pc = "expression"
    /\ Idle

\* a parser is constructed on the text and parse_expression is called once;
\* what is kept is the parser after the call: the Expression returned (val),
\* the lookahead it stopped at and the number of tokens consumed
ParseExpression ==
    /\ pc = "expression"
    /\ \E tokens \in {Tokens(source)} :
           returned' = parse_expression(tokens, ParserConstructed(tokens))
    /\ pc' = "returned"
    /\ UNCHANGED <<source, verilog_module, next_index, current_linter_context,
                   linter_violations, evaluated_parameter_values,
                   evaluated_signal_widths, register_driven_by_block,
                   is_register_written_to, finite_state_machine_states,
                   used_case_statement_items, std_out, std_err, exit_status>>

NextExpr == ParseExpression

SpecExpr == InitExpr /\ [][NextExpr]_vars

\* the precedence level of an operator: 2 factor, 3 term, 4 comparison
Level(op) ==
    IF op \in {<<"*">>, <<"/">>, <<"<","<">>, <<">",">">>} THEN 2
    ELSE IF op \in {<<"+">>, <<"-">>, <<"|">>, <<"&">>, <<"^">>} THEN 3
    ELSE 4

\* the whole text was parsed: the lookahead is the End token
ParsedToTheEnd ==
    /\ pc = "returned"
    /\ returned.status = "ok"
    /\ returned.current_token.type = "EndToken"

\* C12: parse_expression is left-associative within a precedence level:
\* for operators op1 and op2 of the same level, a op1 b op2 c is parsed
\* whole as BinaryExpression(op2, BinaryExpression(op1, a, b), c); so
\* a - b - c gives (a - b) - c and a == b == c gives (a == b) == c.
C12_LeftAssociative ==
    \A op1, op2 \in Operators :
        (pc = "returned" /\ source = ChainText(<<op1, op2>>)
         /\ Level(op1) = Level(op2)) =>
            /\ ParsedToTheEnd
            /\ returned.val =
                   BinaryExpression(op2,
                       BinaryExpression(op1, Identifier(OperandAt(1)),
                                        Identifier(OperandAt(2))),
                       Identifier(OperandAt(3)))

\* a - b - c is parsed whole, as a - (b - c)
C12_Witness ==
    /\ source = ChainText(<<<<"-">>, <<"-">>>>)
    /\ ParsedToTheEnd
    /\ returned.val =
           BinaryExpression(<<"-">>, Identifier(<<"a">>),
               BinaryExpression(<<"-">>, Identifier(<<"b">>),
                                Identifier(<<"c">>)))

\* C13: parse_expression enforces the precedence levels: in a op1 b op2 c
\* the operator of the tighter level takes b (the first one when the levels
\* are equal); a + b * c == d is parsed whole as (a + (b * c)) == d; and a
\* parenthesised expression is a primary: ( a + b ) * c is parsed whole as
\* (a + b) * c.
C13_Precedence ==
    /\ \A op1, op2 \in Operators :
          (pc = "returned" /\ source = ChainText(<<op1, op2>>)) =>
              /\ ParsedToTheEnd
              /\ returned.val =
                     IF Level(op2) < Level(op1)
                     THEN BinaryExpression(op1, Identifier(OperandAt(1)),
                              BinaryExpression(op2, Identifier(OperandAt(2)),
                                               Identifier(OperandAt(3))))
                     ELSE BinaryExpression(op2,
                              BinaryExpression(op1, Identifier(OperandAt(1)),
                                               Identifier(OperandAt(2))),
                              Identifier(OperandAt(3)))
    /\ (pc = "returned" /\ source = SourcePrecedence) =>
          /\ ParsedToTheEnd
          /\ returned.val =
                 BinaryExpression(<<"=","=">>,
                     BinaryExpression(<<"+">>, Identifier(<<"a">>),
                         BinaryExpression(<<"*">>, Identifier(<<"b">>),
                                          Identifier(<<"c">>))),
                     Identifier(<<"d">>))
    /\ (pc = "returned" /\ source = SourceParenthesised) =>
          /\ ParsedToTheEnd
          /\ returned.val =
                 BinaryExpression(<<"*">>,
                     BinaryExpression(<<"+">>, Identifier(<<"a">>),
                                      Identifier(<<"b">>)),
                     Identifier(<<"c">>))

\* on a + b * c == d the call returns a + b and stops at the *
C13_Witness ==
    /\ source = SourcePrecedence
    /\ pc = "returned"
    /\ returned.status = "ok"
    /\ returned.val =
           BinaryExpression(<<"+">>, Identifier(<<"a">>), Identifier(<<"b">>))
    /\ returned.current_token = [type |-> "Symbol", content |-> <<"*">>]

\* main has a Module: the parser has returned
Parsed == pc \notin {"start", "exited", "looping"}

\* whether an assignment node is blocking; a NonBlockingAssignment node has
\* no flag and stands for the non-blocking form
IsBlocking(statement) ==
    IF "is_blocking" \in DOMAIN statement THEN statement.is_blocking ELSE FALSE

\* the body of the i-th item is an assignment of the given form to the
\* target n
BodyAssigns(i, n, blocking) ==
    /\ Len(verilog_module.module_items) >= i
    /\ "left_hand_side_expression"
           \in DOMAIN verilog_module.module_items[i].body_statement
    /\ verilog_module.module_items[i].body_statement.left_hand_side_expression
           = Identifier(n)
    /\ IsBlocking(verilog_module.module_items[i].body_statement) = blocking

\* C14: a statement that starts with an Identifier is parsed as an
\* assignment in both forms: s = a + b; (scenario S3) is accepted and
\* yields a blocking assignment, s <= a + b; is accepted and yields a
\* non-blocking one, and any other token after the left-hand side (y + a;)
\* is a fatal syntax error.
C14_AssignmentForms ==
    /\ source = SourceS3 =>
          /\ pc # "exited"
          /\ Parsed => BodyAssigns(1, <<"s">>, TRUE)
    /\ source = SourceS3NonBlocking =>
          /\ pc # "exited"
          /\ Parsed => BodyAssigns(1, <<"s">>, FALSE)
    /\ source = SourceNoAssignOperator =>
          /\ pc \in {"start", "exited"}
          /\ pc = "exited" => exit_status # 0 /\ Len(std_err) = 1

\* on s = a + b; the parser exits with status 1 and main has no Module
C14_Witness ==
    /\ source = SourceS3
    /\ pc = "exited"
    /\ exit_status = 1
    /\ verilog_module = NoModule
    /\ returned = <<>>

\* the kind of a module item: ModuleItem has one alternative
ItemKind(item) == "AlwaysBlock"

\* the kinds of the items of a source's module body, in source order
BodyItems(src) ==
    IF src = SourceAssign THEN <<"ContinuousAssignment">>
    ELSE IF src = SourceBodyRegister THEN <<"SignalDeclaration", "AlwaysBlock">>
    ELSE IF src = SourceRegAfterAlways THEN <<"AlwaysBlock", "SignalDeclaration">>
    ELSE IF src = SourceS6 THEN <<"AlwaysBlock", "AlwaysBlock">>
    ELSE <<>>

\* C15: each item of the module body is dispatched by its leading keyword
\* and appended to the items in source order: always gives an AlwaysBlock,
\* assign a ContinuousAssignment, reg/wire, before or after an always
\* block, a SignalDeclaration; endmodule ends the loop; any other leading
\* token (initial) is a fatal error.
C15_ModuleItems ==
    /\ source \in {SourceAssign, SourceBodyRegister, SourceRegAfterAlways,
                   SourceS6} =>
          /\ pc # "exited"
          /\ Parsed =>
                [i \in 1..Len(verilog_module.module_items) |->
                    ItemKind(verilog_module.module_items[i])]
                = BodyItems(source)
    /\ source = SourceInitial =>
          /\ pc \in {"start", "exited"}
          /\ pc = "exited" => exit_status # 0 /\ Len(std_err) = 1

\* on assign w = a; the parser exits: assign is an unknown module item
C15_Witness ==
    /\ source = SourceAssign
    /\ pc = "exited"
    /\ exit_status = 1
    /\ std_err = <<"Unknown module item: assign">>

(***************************************************************************)
(* SpecLex: the lexer on its own.  get_next_token is called until it       *)
(* returns the End token; next_index is current_character_pointer, and     *)
(* returned holds the tokens returned so far, each with the place of the   *)
(* cursor after it.  The texts are every text of up to MaxChars characters *)
(* over a small alphabet, every pair of symbol characters, and words.      *)
(***************************************************************************)
MaxChars == 4

LexAlphabet == {"a", "/", "*", " ", "\n", "="}

SymbolCharacters == {"<", ">", "=", "!", "&", "|", "+"}
SymbolPairs == {<<x, y>> : x, y \in SymbolCharacters}

\* the reserved words of the lexer's specification
ReservedWords ==
    {"module", "endmodule", "input", "output", "inout", "reg", "wire",
     "assign", "always", "posedge", "negedge", "begin", "end", "if", "else",
     "parameter", "or", "case", "endcase", "default"}

WordAssign == <<"a","s","s","i","g","n">>
WordTexts ==
    {WordAssign,
     <<"m","o","d","u","l","e">>, <<"e","n","d","m","o","d","u","l","e">>,
     <<"i","n","p","u","t">>, <<"o","u","t","p","u","t">>,
     <<"i","n","o","u","t">>, <<"r","e","g">>, <<"w","i","r","e">>,
     <<"a","l","w","a","y","s">>, <<"p","o","s","e","d","g","e">>,
     <<"n","e","g","e","d","g","e">>, <<"b","e","g","i","n">>,
     <<"e","n","d">>, <<"i","f">>, <<"e","l","s","e">>,
     <<"p","a","r","a","m","e","t","e","r">>, <<"o","r">>,
     <<"c","a","s","e">>, <<"e","n","d","c","a","s","e">>,
     <<"d","e","f","a","u","l","t">>,
     <<"M","o","d","u","l","e">>, <<"e","n","d","1">>, <<"_","o","r">>,
     <<"i","f","f">>, <<"r","e","g"," ","r">>, <<"w","h","i","l","e">>}

LexSources == SeqsUpTo(LexAlphabet, MaxChars) \cup SymbolPairs \cup WordTexts

InitLex ==
    /\ source \in LexSources
    /\ pc = "lexing"
    /\ Idle

\* one call of get_next_token
LexToken ==
    /\ pc = "lexing"
    /\ \E t \in {get_next_token(source, next_index)} :
        /\ returned' = Append(returned, t)
        /\ next_index' = t.cur
        /\ pc' = IF t.type = "EndToken" THEN "lexed" ELSE "lexing"
    /\ UNCHANGED <<source, verilog_module, current_linter_context,
                   linter_violations, evaluated_parameter_values,
                   evaluated_signal_widths, register_driven_by_block,
                   is_register_written_to, finite_state_machine_states,
                   used_case_statement_items, std_out, std_err, exit_status>>

NextLex == LexToken

SpecLex == InitLex /\ [][NextLex]_vars

\* the place of the first character of the i-th token returned
TokenStart(i) == returned[i].cur - Len(returned[i].content)
\* the tokens returned that are not the End token
RealTokens == {i \in 1..Len(returned) : returned[i].type # "EndToken"}

TwoCharacterSymbols ==
    {<<"<","=">>, <<">","=">>, <<"=","=">>, <<"!","=">>, <<"<","<">>,
     <<">",">">>, <<"&","&">>, <<"|","|">>}

\* C16: at a token start, whenever the next two characters are one of
\* <=, >=, ==, !=, <<, >>, &&, ||, get_next_token consumes both and returns
\* them as one Symbol token of length 2; in every other symbol case it
\* returns a Symbol of length 1.
C16_TwoCharacterSymbols ==
    \A i \in RealTokens :
        returned[i].type = "Symbol" =>
            Len(returned[i].content) =
                IF /\ TokenStart(i) + 1 <= Len(source)
                   /\ SubSeq(source, TokenStart(i), TokenStart(i) + 1)
                          \in TwoCharacterSymbols
                THEN 2 ELSE 1

\* the text >= is returned as two Symbol tokens, > and =
C16_Witness ==
    /\ source = <<">", "=">>
    /\ pc = "lexed"
    /\ Len(returned) = 3
    /\ returned[1] = Token("Symbol", <<">">>, 2)
    /\ returned[2] = Token("Symbol", <<"=">>, 3)

\* C17: a word token (a maximal run of letters, digits and underscores that
\* starts with a letter or an underscore) has kind Keyword if and only if
\* its text is one of the 20 reserved words; every other word is an
\* Identifier.
C17_ReservedWords ==
    \A i \in RealTokens :
        is_alphabet_character(returned[i].content[1]) =>
            /\ returned[i].type \in {"Keyword", "Identifier"}
            /\ returned[i].type = "Keyword"
                   <=> Str(returned[i].content) \in ReservedWords

\* the word assign is returned as an Identifier
C17_Witness ==
    /\ source = WordAssign
    /\ pc = "lexed"
    /\ returned[1] = Token("Identifier", WordAssign, 7)


\* The places of a text that lie inside a comment, read off the text alone:
\* outside a comment // opens a line comment that runs up to the newline,
\* and /* opens a block comment that runs through the next */ after the
\* opener, or to the end of the text when there is none.
RECURSIVE CommentPlaces(_, _, _)
CommentPlaces(src, p, mode) ==
    IF p > Len(src) THEN {}
    ELSE IF mode = "code" THEN
        IF src[p] = "/" /\ p + 1 <= Len(src) /\ src[p + 1] \in {"/", "*"}
        THEN {p, p + 1} \cup
             CommentPlaces(src, p + 2,
                           IF src[p + 1] = "/" THEN "line" ELSE "block")
        ELSE CommentPlaces(src, p + 1, "code")
    ELSE IF mode = "line" THEN
        IF src[p] = "\n" THEN CommentPlaces(src, p + 1, "code")
        ELSE {p} \cup CommentPlaces(src, p + 1, "line")
    ELSE
        IF src[p] = "*" /\ p + 1 <= Len(src) /\ src[p + 1] = "/"
        THEN {p, p + 1} \cup CommentPlaces(src, p + 2, "code")
        ELSE {p} \cup CommentPlaces(src, p + 1, "block")

InComment(src) == CommentPlaces(src, 1, "code")

\* the place where the block comment that is never closed opens, 0 if every
\* block comment of the text is closed
RECURSIVE OpenCommentAt(_, _, _, _)
OpenCommentAt(src, p, mode, opened) ==
    IF p > Len(src) THEN (IF mode = "block" THEN opened ELSE 0)
    ELSE IF mode = "code" THEN
        IF src[p] = "/" /\ p + 1 <= Len(src) /\ src[p + 1] \in {"/", "*"}
        THEN OpenCommentAt(src, p + 2,
                           IF src[p + 1] = "/" THEN "line" ELSE "block", p)
        ELSE OpenCommentAt(src, p + 1, "code", 0)
    ELSE IF mode = "line" THEN
        OpenCommentAt(src, p + 1,
                      IF src[p] = "\n" THEN "code" ELSE "line", 0)
    ELSE
        IF src[p] = "*" /\ p + 1 <= Len(src) /\ src[p + 1] = "/"
        THEN OpenCommentAt(src, p + 2, "code", 0)
        ELSE OpenCommentAt(src, p + 1, "block", opened)

\* the places of the text that the i-th token returned is made of
TokenPlaces(i) == TokenStart(i) .. (returned[i].cur - 1)

\* C18: the texts of the tokens returned for a text s are non-empty,
\* non-overlapping substrings of s in strictly increasing position order;
\* every character of s that is not whitespace and not inside a comment
\* belongs to exactly one returned token; the cursor never moves backwards
\* and never passes the end of s.
C18_TokensCoverSource ==
    /\ \A i \in RealTokens :
        /\ returned[i].content # <<>>
        /\ TokenStart(i) >= 1
        /\ returned[i].content =
               SubSeq(source, TokenStart(i), returned[i].cur - 1)
        /\ i > 1 => TokenStart(i) >= returned[i - 1].cur
    /\ \A i \in 1..Len(returned) :
        /\ returned[i].cur <= Len(source) + 1
        /\ returned[i].cur >= (IF i = 1 THEN 1 ELSE returned[i - 1].cur)
    /\ next_index \in 1..(Len(source) + 1)
    /\ \A p \in 1..Len(source) :
        /\ (p < next_index \/ pc = "lexed")
        /\ ~is_whitespace_character(source[p])
        /\ p \notin InComment(source)
        => Cardinality({i \in RealTokens : p \in TokenPlaces(i)}) = 1

\* a text with a line comment, a newline and a word after it has been lexed
\* to its end: the word is the one token
C18_Witness ==
    /\ source = <<"/", "/", "\n", "a">>
    /\ pc = "lexed"
    /\ returned = <<Token("Identifier", <<"a">>, 5), Token("EndToken", <<>>, 5)>>

\* C19: a block comment that is never closed consumes to the end of the
\* text: no token is produced from any character at or after its /*, and
\* the call that meets it returns the End token.
C19_OpenCommentSilent ==
    OpenCommentAt(source, 1, "code", 0) > 0 =>
        \A i \in RealTokens :
            returned[i].cur <= OpenCommentAt(source, 1, "code", 0)

\* the last character of the open comment /*a is returned as an Identifier
C19_Witness ==
    /\ source = <<"/", "*", "a">>
    /\ pc = "lexed"
    /\ returned = <<Token("Identifier", <<"a">>, 4), Token("EndToken", <<>>, 4)>>


(***************************************************************************)
(* SpecNum: parse_verilog_number on its own, and the evaluator on the      *)
(* Number it is called for.  The texts are number tokens: a digit, then    *)
(* digits, letters and apostrophes.                                        *)
(***************************************************************************)
MaxDigits == 2

DigitAlphabet == {"0", "7", "9", "F", "G"}
DigitTexts == SeqsUpTo(DigitAlphabet, MaxDigits)

LiteralPrefixes ==
    {<<"1">>, <<"8", "'", "h">>, <<"8", "'", "o">>, <<"8", "'", "d">>,
     <<"8", "'", "b">>}

Repeat(c, n) == [i \in 1..n |-> c]

\* the largest values of 64 bits and the smallest texts that pass them
LargestDecimal ==
    <<"1","8","4","4","6","7","4","4","0","7","3","7","0","9","5","5","1","6","1","5">>
WideTexts ==
    {<<"6", "4", "'", "h">> \o Repeat("F", 16),
     <<"6", "4", "'", "h", "1">> \o Repeat("0", 16),
     <<"6", "4", "'", "o", "1">> \o Repeat("7", 21),
     <<"6", "4", "'", "o", "2">> \o Repeat("0", 21),
     LargestDecimal,
     SubSeq(LargestDecimal, 1, 19) \o <<"6">>,
     <<"6", "4", "'", "d">> \o LargestDecimal \o <<"0">>}

\* literals of every base, with separators, and with more digits or a larger
\* width than the integer types hold
BasedTexts ==
    {<<"1", "2">>, <<"1", "_", "0", "0", "0">>, <<"4", "2", "_">>,
     <<"4", "'", "b", "1", "0", "1", "0">>,
     <<"8", "'", "b", "1", "0", "1", "0", "_", "0", "0", "1", "1">>,
     <<"8", "'", "B", "0", "1">>,
     <<"1", "6", "'", "h", "B", "E", "E", "F">>,
     <<"1", "6", "'", "H", "b", "e", "_", "e", "f">>,
     <<"3", "2", "'", "h", "1", "2", "3", "4", "5", "6", "7", "8">>,
     <<"9", "'", "o", "7", "1", "0">>, <<"9", "'", "O", "1", "_", "7">>,
     <<"1", "0", "'", "d", "1", "0", "2", "3">>, <<"0", "1", "0", "'", "D", "4", "2">>,
     <<"0", "'", "d", "1">>,
     <<"6", "4", "'", "b">> \o Repeat("1", 64),
     <<"6", "5", "'", "b", "1">> \o Repeat("0", 64),
     <<"4", "2", "9", "4", "9", "6", "7", "2", "9", "5", "'", "d", "1">>,
     <<"4", "2", "9", "4", "9", "6", "7", "2", "9", "7", "'", "d", "1">>}

NumberTexts ==
    {p \o d : p \in LiteralPrefixes, d \in DigitTexts} \cup WideTexts
        \cup BasedTexts

InitNum ==
    /\ source \in NumberTexts
    /\ pc = "number"
    /\ Idle

\* the Number arm of evaluate_expression_properties on the text
ParseNumber ==
    /\ pc = "number"
    /\ returned' =
           [parsed |-> parse_verilog_number(source),
            evaluated |-> evaluate_expression_properties(
                              Number(source), EmptyMap, EmptyMap, "mod64")]
    /\ pc' = "returned"
    /\ UNCHANGED <<source, verilog_module, next_index, current_linter_context,
                   linter_violations, evaluated_parameter_values,
                   evaluated_signal_widths, register_driven_by_block,
                   is_register_written_to, finite_state_machine_states,
                   used_case_statement_items, std_out, std_err, exit_status>>

NextNum == ParseNumber

SpecNum == InitNum /\ [][NextNum]_vars

\* the base a literal is written in and its digits, as Verilog reads them
LiteralBase(text) ==
    IF \E i \in 1..Len(text) : text[i] = "'"
    THEN CHOOSE b \in {2, 8, 10, 16} :
            \E i \in 1..(Len(text) - 1) :
                /\ text[i] = "'"
                /\ \A j \in 1..(i - 1) : text[j] # "'"
                /\ b = (CASE text[i + 1] \in {"h", "H"} -> 16
                          [] text[i + 1] \in {"o", "O"} -> 8
                          [] text[i + 1] \in {"b", "B"} -> 2
                          [] OTHER -> 10)
    ELSE 10
LiteralDigits(text) ==
    IF \E i \in 1..Len(text) : text[i] = "'"
    THEN SubSeq(text, 2 + CHOOSE i \in 1..Len(text) :
                        text[i] = "'" /\ \A j \in 1..(i - 1) : text[j] # "'",
                Len(text))
    ELSE text

DigitsOfBase(base) ==
    IF base = 8 THEN {"0","1","2","3","4","5","6","7"}
    ELSE IF base = 10 THEN {"0","1","2","3","4","5","6","7","8","9"}
    ELSE {"0","1","2","3","4","5","6","7","8","9",
          "a","b","c","d","e","f","A","B","C","D","E","F"}

HasOutOfBaseCharacter(text) ==
    \E i \in 1..Len(LiteralDigits(text)) :
        LiteralDigits(text)[i] \notin DigitsOfBase(LiteralBase(text)) \cup {"_"}

\* a is a larger decimal number than b (neither has a leading zero)
DecimalGreater(a, b) ==
    \/ Len(a) > Len(b)
    \/ /\ Len(a) = Len(b)
       /\ \E i \in 1..Len(a) :
            /\ SubSeq(a, 1, i - 1) = SubSeq(b, 1, i - 1)
            /\ IndexIn(a[i], DigitChars) > IndexIn(b[i], DigitChars)

\* the digits, all of the base and without a leading zero, are a value of
\* more than 64 bits
Overflows64(text) ==
    /\ ~HasOutOfBaseCharacter(text)
    /\ LiteralDigits(text) # <<>>
    /\ LiteralDigits(text)[1] # "0"
    /\ \/ LiteralBase(text) = 16 /\ Len(LiteralDigits(text)) > 16
       \/ /\ LiteralBase(text) = 8
          /\ \/ Len(LiteralDigits(text)) > 22
             \/ Len(LiteralDigits(text)) = 22 /\ LiteralDigits(text)[1] # "1"
       \/ /\ LiteralBase(text) = 10
          /\ DecimalGreater(LiteralDigits(text), LargestDecimal)

\* C20: for a literal of base 8, 10 or 16, parse_verilog_number returns
\* nothing whenever the digits hold a character that is not a digit of the
\* base, at any position (8'hFG, 12ab), or the value does not fit 64 bits;
\* the evaluator then gives the literal no constant value and width 32.
C20_OutOfBaseRejected ==
    /\ pc = "returned"
    /\ LiteralBase(source) # 2
    /\ HasOutOfBaseCharacter(source) \/ Overflows64(source)
    => /\ returned.parsed = NoConstant
       /\ returned.evaluated = ExpressionResult(<<>>, U32(32), <<>>)

\* 8'hFG is parsed as the constant 15 of width 8
C20_Witness ==
    /\ source = <<"8", "'", "h", "F", "G">>
    /\ pc = "returned"
    /\ returned.parsed = ConstantValue(U64(15), U32(8))
    /\ returned.evaluated = ExpressionResult(<<U64(15)>>, U32(8), <<>>)

\* the parts of C20 that the parser keeps: a value that does not fit 64
\* bits, and digits whose first character is out of the base, give nothing
C20_OverflowRejected ==
    /\ pc = "returned"
    /\ LiteralBase(source) # 2
    /\ \/ Overflows64(source)
       \/ /\ LiteralDigits(source) # <<>>
          /\ LiteralDigits(source)[1] \notin DigitsOfBase(LiteralBase(source))
    => /\ returned.parsed = NoConstant
       /\ returned.evaluated = ExpressionResult(<<>>, U32(32), <<>>)


\* the first apostrophe of a literal (0 when it has none), the decimal
\* width before it and the digits after the base character, separators
\* taken out
LiteralTick(text) ==
    IF \E i \in 1..Len(text) : text[i] = "'"
    THEN CHOOSE i \in 1..Len(text) :
            text[i] = "'" /\ \A j \in 1..(i - 1) : text[j] # "'"
    ELSE 0
LiteralWidthText(text) == SubSeq(text, 1, LiteralTick(text) - 1)
PlainDigits(text) == SelectSeq(LiteralDigits(text), LAMBDA c : c # "_")

DigitsIn(base) == IF base = 2 THEN {"0", "1"} ELSE DigitsOfBase(base)

\* a literal as Verilog writes it: an optional decimal width and a base
\* character after the apostrophe, then digits of the base and separators;
\* for bases 8, 10 and 16 the value fits 64 bits
WellFormed(text) ==
    /\ PlainDigits(text) # <<>>
    /\ \A i \in 1..Len(PlainDigits(text)) :
            PlainDigits(text)[i] \in DigitsIn(LiteralBase(text))
    /\ LiteralTick(text) > 0 =>
        /\ text[LiteralTick(text) + 1]
               \in {"h", "H", "d", "D", "o", "O", "b", "B"}
        /\ \A i \in 1..Len(LiteralWidthText(text)) :
                LiteralWidthText(text)[i] \in DigitsOfBase(10)
    /\ LiteralBase(text) # 2 => ~Overflows64(text)

RECURSIVE WithoutLeadingZeros(_)
WithoutLeadingZeros(digits) ==
    IF Len(digits) > 1 /\ digits[1] = "0"
    THEN WithoutLeadingZeros(Tail(digits)) ELSE digits

\* the bits of one digit of base 2, 8 or 16, the lowest first
DigitBits(c, base) ==
    LET v == CHOOSE n \in 0..15 :
                \/ n <= 9 /\ c = DigitChars[n + 1]
                \/ n >= 10 /\ c \in {LowerChars[n - 9], UpperChars[n - 9]}
        k == IF base = 2 THEN 1 ELSE IF base = 8 THEN 3 ELSE 4
    IN  [j \in 1..k |-> (v \div (2^(j - 1))) % 2]

\* the bits of the digits of a literal of base 2, 8 or 16, the lowest first
LiteralBits(digits, base) ==
    LET k == IF base = 2 THEN 1 ELSE IF base = 8 THEN 3 ELSE 4
    IN  [j \in 1..(k * Len(digits)) |->
            DigitBits(digits[Len(digits) - ((j - 1) \div k)], base)[((j - 1) % k) + 1]]

BitAt(bits, j) == IF j <= Len(bits) THEN bits[j] ELSE 0

\* the limbs of the number the bits are, as many as the bits need and at
\* least those of 64 bits
BitLimbs(bits) ==
    [i \in 1..(IF Len(bits) > 64 THEN (Len(bits) + 15) \div 16 ELSE U64Limbs) |->
        BitAt(bits, 16 * i - 15) + 2 * BitAt(bits, 16 * i - 14)
        + 4 * BitAt(bits, 16 * i - 13) + 8 * BitAt(bits, 16 * i - 12)
        + 16 * BitAt(bits, 16 * i - 11) + 32 * BitAt(bits, 16 * i - 10)
        + 64 * BitAt(bits, 16 * i - 9) + 128 * BitAt(bits, 16 * i - 8)
        + 256 * BitAt(bits, 16 * i - 7) + 512 * BitAt(bits, 16 * i - 6)
        + 1024 * BitAt(bits, 16 * i - 5) + 2048 * BitAt(bits, 16 * i - 4)
        + 4096 * BitAt(bits, 16 * i - 3) + 8192 * BitAt(bits, 16 * i - 2)
        + 16384 * BitAt(bits, 16 * i - 1) + 32768 * BitAt(bits, 16 * i)]

\* value is the positional value of the digits in the base
IsPositionalValue(value, digits, base) ==
    IF base = 10
    THEN to_string(value) = Str(WithoutLeadingZeros(digits))
    ELSE BitLimbs(LiteralBits(digits, base))
             = [i \in 1..Len(BitLimbs(LiteralBits(digits, base))) |->
                    IF i <= Len(value) THEN value[i] ELSE 0]

\* C21: for every well-formed literal, parse_verilog_number returns the
\* positional value of its digits in the selected base (h/H 16, d/D 10,
\* o/O 8, b/B 2, decimal without an apostrophe), separators ignored, and a
\* width equal to the decimal number before the apostrophe, or 32 when
\* there is no apostrophe or nothing before it.
C21_PositionalValue ==
    pc = "returned" /\ WellFormed(source) =>
        /\ returned.parsed.ok
        /\ IsPositionalValue(returned.parsed.numeric_value,
                             PlainDigits(source), LiteralBase(source))
        /\ IF LiteralWidthText(source) = <<>>
           THEN returned.parsed.bit_width_size = U32(32)
           ELSE to_string(returned.parsed.bit_width_size)
                    = Str(WithoutLeadingZeros(LiteralWidthText(source)))

\* the binary literal of 1 and 64 zeros is parsed as the value 0
C21_Witness ==
    /\ source = <<"6", "5", "'", "b", "1">> \o Repeat("0", 64)
    /\ pc = "returned"
    /\ returned.parsed = ConstantValue(U64(0), U32(65))

\* the part of C21 the parser keeps: literals whose value fits 64 bits and
\* whose width fits 32 bits
C21_FittingLiterals ==
    /\ Len(PlainDigits(source)) <= 64
    /\ Len(LiteralWidthText(source)) < 10
    => C21_PositionalValue


(***************************************************************************)
(* SpecEval: evaluate_expression_properties on one binary expression, in a *)
(* linter whose tables are those of                                        *)
(*   module m #(parameter P = 8'hFF, parameter BIG = 64'hFFFFFFFFFFFFFFFF) *)
(*            (input [3:0] a, output [7:0] w);                             *)
(* returned holds the expression, and after the call its result too.       *)
(***************************************************************************)
NameP == <<"P">>
NameBig == <<"B", "I", "G">>
NameU == <<"u">>

EvalOperators ==
    {<<"+">>, <<"-">>, <<"*">>, <<"<", "<">>, <<">", ">">>, <<"=", "=">>,
     <<"!", "=">>, <<">", "=">>, <<"<", "=">>, <<">">>, <<"<">>,
     <<"&", "&">>, <<"|", "|">>, <<"&">>, <<"|">>, <<"^">>, <<"/">>}

Literal4d3 == Number(<<"4", "'", "d", "3">>)
Literal4d15 == Number(<<"4", "'", "d", "1", "5">>)
Literal4d255 == Number(<<"4", "'", "d", "2", "5", "5">>)
Literal64d1 == Number(<<"6", "4", "'", "d", "1">>)

EvalLeaves ==
    {Literal4d3, Literal4d15, Literal4d255, Literal64d1,
     Number(<<"1">>), Number(<<"8", "'", "h", "F", "F">>),
     Number(<<"6", "3", "'", "d", "1">>),
     Number(<<"6", "4", "'", "h">> \o Repeat("F", 16)),
     Number(<<"4", "'", "b", "x">>),
     Identifier(NameA), Identifier(NameW), Identifier(NameP),
     Identifier(NameBig), Identifier(NameU)}

EvalOperands ==
    EvalLeaves \cup
    {BinaryExpression(<<"+">>, Literal4d15, Literal4d3),
     BinaryExpression(<<"-">>, Literal4d3, Literal4d15),
     BinaryExpression(<<"*">>, Literal4d3, Identifier(NameA))}

InitEval ==
    /\ source = <<>>
    /\ pc = "evaluate"
    /\ verilog_module = NoModule
    /\ next_index = 1
    /\ current_linter_context =
           [current_always_block |-> NullBlock, in_combinational_always_block |-> FALSE]
    /\ linter_violations = <<>>
    /\ evaluated_parameter_values =
           MapPut(MapPut(EmptyMap, NameP, U64(255)), NameBig, AllOnes(U64Limbs))
    /\ evaluated_signal_widths =
           MapPut(MapPut(EmptyMap, NameA, U32(4)), NameW, U32(8))
    /\ register_driven_by_block = EmptyMap
    /\ is_register_written_to = EmptyMap
    /\ finite_state_machine_states = <<NameP, NameBig>>
    /\ used_case_statement_items = {}
    /\ std_out = <<>>
    /\ std_err = <<>>
    /\ exit_status = -1
    /\ \E op \in EvalOperators, l, r \in EvalOperands :
            returned = [expression |-> BinaryExpression(op, l, r)]

\* one call of evaluate_expression_properties
Evaluate ==
    /\ pc = "evaluate"
    /\ \E shift_outcome \in ShiftOutcomes :
       \E result \in {evaluate_expression_properties(
                         returned.expression, evaluated_parameter_values,
                         evaluated_signal_widths, shift_outcome)} :
            /\ returned' = [expression |-> returned.expression,
                            result |-> result]
            /\ linter_violations' = linter_violations \o result.reported
    /\ pc' = "evaluated"
    /\ UNCHANGED <<source, verilog_module, next_index, current_linter_context,
                   evaluated_parameter_values, evaluated_signal_widths,
                   register_driven_by_block, is_register_written_to,
                   finite_state_machine_states, used_case_statement_items,
                   std_out, std_err, exit_status>>

NextEval == Evaluate

SpecEval == InitEval /\ [][NextEval]_vars

\* what the evaluator gives an operand of the expression in returned
OperandResult(e) ==
    evaluate_expression_properties(e, evaluated_parameter_values,
                                   evaluated_signal_widths, "mod64")
LeftWidth == OperandResult(returned.expression.left_expression).bit_width_size
RightWidth == OperandResult(returned.expression.right_expression).bit_width_size
\* a width as a number (widths here are far below 2^31)
AsNumber(width) == width[1] + LimbBase * width[2]
Larger(m, n) == IF m < n THEN n ELSE m
OperatorIs(ops) ==
    pc = "evaluated" /\ Str(returned.expression.operator_symbol) \in ops
BothConstant ==
    /\ OperandResult(returned.expression.left_expression).statically_evaluated_value # <<>>
    /\ OperandResult(returned.expression.right_expression).statically_evaluated_value # <<>>

C23_OtherWidths ==
    /\ OperatorIs({"==", "!=", ">=", "<=", ">", "<", "&&", "||"}) =>
        AsNumber(returned.result.bit_width_size) = 1
    /\ OperatorIs({"<<", ">>"}) =>
        returned.result.bit_width_size = LeftWidth
    /\ OperatorIs({"&", "|", "^", "/"}) =>
        AsNumber(returned.result.bit_width_size)
            = Larger(AsNumber(LeftWidth), AsNumber(RightWidth))

\* a != w, of the 4-bit port a and the 8-bit port w, has width 8, and so
\* has a << w
C23_Witness ==
    /\ pc = "evaluated"
    /\ returned.expression.left_expression = Identifier(NameA)
    /\ returned.expression.right_expression = Identifier(NameW)
    /\ Str(returned.expression.operator_symbol) \in {"!=", "<<"}
    /\ returned.result.bit_width_size = U32(8)

\* the parts of C23 the evaluator keeps: width 1 for ==, and max(lw, rw)
\* for &, |, ^ and /
C23_EqualityAndBitwise ==
    /\ OperatorIs({"=="}) => AsNumber(returned.result.bit_width_size) = 1
    /\ OperatorIs({"&", "|", "^", "/"}) =>
        AsNumber(returned.result.bit_width_size)
            = Larger(AsNumber(LeftWidth), AsNumber(RightWidth))

\* a value of 64 bits with a limb of zeros on top, for sums that need it
Widen(a, n) == [i \in 1..n |-> IF i <= Len(a) THEN a[i] ELSE 0]
LeftValue ==
    OperandResult(returned.expression.left_expression).statically_evaluated_value[1]
RightValue ==
    OperandResult(returned.expression.right_expression).statically_evaluated_value[1]
\* lv + rv, exactly
ExactSum == WrapAdd(Widen(LeftValue, U64Limbs + 1), Widen(RightValue, U64Limbs + 1))
OperandWidth == Larger(AsNumber(LeftWidth), AsNumber(RightWidth))
\* 2^w - 1, or 2^64 - 1 when w >= 64
MaxOfWidth(w) ==
    Widen(IF w >= 64 THEN AllOnes(U64Limbs) ELSE MaskBits(AllOnes(U64Limbs), w),
          U64Limbs + 1)
OverflowText == "Constant Math Overflow: " \o to_string(LeftValue) \o " + "
                    \o to_string(RightValue)
\* the violations the call appended that its operands did not
OwnViolations ==
    SubSeq(returned.result.reported,
           Len(OperandResult(returned.expression.left_expression).reported)
           + Len(OperandResult(returned.expression.right_expression).reported) + 1,
           Len(returned.result.reported))

\* C24: when both operands of + are constants lv and rv with operand width
\* w = max(lw, rw), the evaluator appends a Constant Math Overflow violation
\* with "<lv> + <rv>" exactly when lv > max_w - rv, where max_w = 2^w - 1
\* (2^64 - 1 when w >= 64), and in every case returns lv + rv masked to
\* w + 1 bits; no other operator ever appends this violation.
C24_ConstantOverflow ==
    /\ OperatorIs({"+"}) /\ BothConstant =>
        /\ OwnViolations =
               IF Less(MaxOfWidth(OperandWidth), ExactSum)
               THEN <<OverflowText>> ELSE <<>>
        /\ returned.result.statically_evaluated_value
               = <<SubSeq(MaskBits(ExactSum, OperandWidth + 1), 1, U64Limbs)>>
    /\ pc = "evaluated" /\ ~(OperatorIs({"+"}) /\ BothConstant) =>
        OwnViolations = <<>>

\* 4'd3 + 4'd255 is folded without a violation, and 63'd1 + 63'd1 is
\* folded to 0
C24_Witness ==
    /\ pc = "evaluated"
    /\ \/ /\ returned.expression
                = BinaryExpression(<<"+">>, Literal4d3, Literal4d255)
          /\ returned.result.reported = <<>>
       \/ /\ returned.expression
                = BinaryExpression(<<"+">>, Number(<<"6", "3", "'", "d", "1">>),
                                   Number(<<"6", "3", "'", "d", "1">>))
          /\ returned.result.statically_evaluated_value = <<U64(0)>>

\* the parts of C24 the evaluator keeps, for operands that fit their width
\* and a result width below 64
C24_NarrowOperands ==
    /\ OperatorIs({"+"}) /\ BothConstant
    /\ ~Less(MaxOfWidth(OperandWidth), Widen(LeftValue, U64Limbs + 1))
    /\ ~Less(MaxOfWidth(OperandWidth), Widen(RightValue, U64Limbs + 1))
    /\ OperandWidth + 1 < 64
    => /\ OwnViolations =
               IF Less(MaxOfWidth(OperandWidth), ExactSum)
               THEN <<OverflowText>> ELSE <<>>
       /\ returned.result.statically_evaluated_value
               = <<SubSeq(MaskBits(ExactSum, OperandWidth + 1), 1, U64Limbs)>>


\* a result without a constant, or with one that fits its width when that
\* is below 64
FitsWidth(result) ==
    result.statically_evaluated_value # <<>>
    /\ AsNumber(result.bit_width_size) < 64
    => MaskBits(result.statically_evaluated_value[1],
                AsNumber(result.bit_width_size))
           = result.statically_evaluated_value[1]

\* C28: every ExpressionResult that carries a constant satisfies
\* value < 2^bit_width (when bit_width < 64): the value of a sized literal
\* fits the literal's declared width, the value of a parameter fits 32
\* bits, and folded + and - results fit their result width.
C28_ValueFitsWidth ==
    pc = "evaluated" =>
        /\ FitsWidth(returned.result)
        /\ FitsWidth(OperandResult(returned.expression.left_expression))
        /\ FitsWidth(OperandResult(returned.expression.right_expression))

\* the literal 4'd255 is evaluated to the value 255 of width 4, the
\* parameter BIG to 2^64 - 1 of width 32
C28_Witness ==
    /\ pc = "evaluated"
    /\ returned.expression.left_expression = Literal4d255
    /\ returned.expression.right_expression = Identifier(NameBig)
    /\ OperandResult(Literal4d255) = ExpressionResult(<<U64(255)>>, U32(4), <<>>)
    /\ OperandResult(Identifier(NameBig))
           = ExpressionResult(<<AllOnes(U64Limbs)>>, U32(32), <<>>)

\* the part of C28 the evaluator keeps: a folded + or - of a result width
\* below 64 fits it
C28_FoldedFits ==
    OperatorIs({"+", "-"}) => FitsWidth(returned.result)

\* C29: when a constant + or - is folded, the shift that builds the mask,
\* 1 << result_width, always has result_width < 64, for every pair of
\* constant operands the parser can produce (64'd1 + 64'd1 included).
C29_ShiftBelow64 ==
    OperatorIs({"+", "-"}) /\ BothConstant =>
        AsNumber(returned.result.bit_width_size) < 64

\* 64'd1 + 64'd1 is folded with result width 65; where the shift count is
\* taken modulo 64 the mask is 1 and the value 0
C29_Witness ==
    /\ pc = "evaluated"
    /\ returned.expression = BinaryExpression(<<"+">>, Literal64d1, Literal64d1)
    /\ returned.result = ExpressionResult(<<U64(0)>>, U32(65), <<>>)


\* the port pass of analyze_module is over
PortsAnalysed ==
    /\ verilog_module # NoModule
    /\ pc \in {"items", "fsm_check", "uninit_check", "report", "done"}

\* the constant a bound of a port's range is evaluated to, if any
BoundValue(e) ==
    evaluate_expression_properties(e, evaluated_parameter_values, EmptyMap,
                                   "mod64").statically_evaluated_value

\* the width signal_widths is to hold for a port: 1 without a range or
\* with a bound that is no constant, msb - lsb + 1 otherwise (the bounds
\* here are far below 2^16)
ExpectedWidth(port_item) ==
    IF port_item.bit_range = <<>> THEN 1
    ELSE IF BoundValue(port_item.bit_range[1].most_significant_bit) = <<>>
            \/ BoundValue(port_item.bit_range[1].least_significant_bit) = <<>>
    THEN 1
    ELSE BoundValue(port_item.bit_range[1].most_significant_bit)[1][1]
         - BoundValue(port_item.bit_range[1].least_significant_bit)[1][1] + 1

\* C30: every width recorded in signal_widths by analyze_module is at least
\* 1 and equals msb - lsb + 1 computed without wrap-around: a port with no
\* range or with a non-constant bound gets width 1, and a port whose
\* constant bounds have msb < lsb ([0:7], [0:1]) never gets width 0 or a
\* wrapped 32-bit value.
C30_PortWidths ==
    PortsAnalysed =>
        \A i \in 1..Len(verilog_module.module_ports) :
            \E width \in {evaluated_signal_widths[
                              verilog_module.module_ports[i].port_name]} :
                /\ width[2] = 0
                /\ width[1] >= 1
                /\ width[1] = ExpectedWidth(verilog_module.module_ports[i])

\* input [0:7] a is recorded with width 2^32 - 6 and input [0:1] b with
\* width 0
C30_Witness ==
    /\ source = SourceReversedRange
    /\ pc = "done"
    /\ evaluated_signal_widths[NameA] = <<65530, 65535>>
    /\ evaluated_signal_widths[<<"b">>] = U32(0)

\* the part of C30 the linter keeps, for ranges written with msb >= lsb
C30_DescendingRanges ==
    PortsAnalysed /\ source # SourceReversedRange =>
        \A i \in 1..Len(verilog_module.module_ports) :
            evaluated_signal_widths[verilog_module.module_ports[i].port_name]
                = U32(ExpectedWidth(verilog_module.module_ports[i]))


\* the Structural Width Mismatch violation the assignment at a place causes
\* ("" when it causes none)
MismatchAt(p) ==
    IF /\ StatementAt(p).k = "NonBlockingAssignment"
       /\ StatementAt(p).left_hand_side_expression.k = "Identifier"
       /\ StatementAt(p).left_hand_side_expression.identifier_name
              \in DOMAIN evaluated_signal_widths
    THEN With(StatementAt(p).left_hand_side_expression.identifier_name, LAMBDA n :
            IF Less(evaluated_signal_widths[n], InferredWidth(StatementAt(p)))
            THEN WidthMismatchMessage(InferredWidth(StatementAt(p)),
                                      evaluated_signal_widths[n], n)
            ELSE "")
    ELSE ""

\* place p is before place q in the source
Before(p, q) == p[1] < q[1] \/ (p[1] = q[1] /\ p[2] < q[2])

IndexOf(message) ==
    CHOOSE i \in 1..Len(linter_violations) : linter_violations[i] = message

\* 2 for an Unreachable Finite State Machine State violation, 3 for an
\* Un-initialized Register violation, 1 for those of the passes before
Rank(message) ==
    IF message \in {UnreachableStateMessage(n) : n \in ParameterNames} THEN 2
    ELSE IF message \in {UninitializedMessage(n) : n \in PortNames} THEN 3
    ELSE 1

\* C25: the violation list keeps discovery order: the violations found
\* while walking the always blocks appear in source order of the statements
\* that caused them, all of them precede the Unreachable FSM State
\* violations, which precede the Un-initialized Register violations; and
\* print_linter_report prints entry k of the list with index [k] in that
\* order, or the clean message when the list is empty.
C25_DiscoveryOrder ==
    /\ Finished =>
        /\ \A p, q \in AllPlaces :
            /\ Before(p, q)
            /\ MismatchAt(p) # "" /\ MismatchAt(q) # ""
            /\ MismatchAt(p) # MismatchAt(q)
            /\ Count(MismatchAt(p)) = 1 /\ Count(MismatchAt(q)) = 1
            => IndexOf(MismatchAt(p)) < IndexOf(MismatchAt(q))
        /\ \A i, j \in 1..Len(linter_violations) :
            i < j => Rank(linter_violations[i]) <= Rank(linter_violations[j])
    /\ pc = "done" =>
        /\ Len(std_out) = 10 + (IF linter_violations = <<>> THEN 1
                                ELSE Len(linter_violations))
        /\ linter_violations = <<>> =>
            std_out[9] = "  No violations found. Clean code!"
        /\ \A k \in 1..Len(linter_violations) :
            std_out[8 + k] = " [" \o ToString(k) \o "] " \o linter_violations[k]

\* the violation of the default arm z <= a, written last, is first in the
\* list and the violation of the arm y <= a second
C25_Witness ==
    /\ source = SourceCaseOrder
    /\ pc = "done"
    /\ linter_violations =
           <<WidthMismatchMessage(U32(4), U32(3), <<"z">>),
             WidthMismatchMessage(U32(4), U32(2), <<"y">>),
             UnreachableStateMessage(<<"S","T","A","T","E","_","X">>),
             UninitializedMessage(<<"u">>)>>

\* the parts of C25 the program keeps: the order of the kinds and the
\* printed list
C25_KindsAndReport ==
    /\ Finished =>
        \A i, j \in 1..Len(linter_violations) :
            i < j => Rank(linter_violations[i]) <= Rank(linter_violations[j])
    /\ pc = "done" =>
        /\ linter_violations = <<>> =>
            std_out[9] = "  No violations found. Clean code!"
        /\ \A k \in 1..Len(linter_violations) :
            std_out[8 + k] = " [" \o ToString(k) \o "] " \o linter_violations[k]

\* the violation list is append-only
C25_AppendOnly ==
    [][SubSeq(linter_violations', 1, Len(linter_violations)) = linter_violations]_vars


\* the first always block, in source order, that assigns to n
FirstWriter(n) ==
    CHOOSE b \in BlocksAssigning(n) : \A c \in BlocksAssigning(n) : b <= c

\* C27: register_driver follows first-writer-wins: once an always block is
\* recorded as the driver of a name, later assignments to the name from
\* other always blocks never replace it, so after analyze_module the
\* recorded driver of every assigned name is the first always block in
\* source order that assigned it.
C27_FirstWriterWins ==
    BlocksAnalysed =>
        \A n \in AssignedNames :
            /\ n \in DOMAIN register_driven_by_block
            /\ register_driven_by_block[n] = FirstWriter(n)

\* in scenario S6 the second of the two blocks that assign q is recorded as
\* its driver
C27_Witness ==
    /\ pc = "done"
    /\ verilog_module = ModuleS6
    /\ BlocksAssigning(<<"q">>) = {1, 2}
    /\ register_driven_by_block[<<"q">>] = 2

\* what the linter keeps: the recorded driver of an assigned name is the
\* last always block that assigned it
C27_LastWriterRecorded ==
    BlocksAnalysed =>
        \A n \in AssignedNames :
            /\ n \in DOMAIN register_driven_by_block
            /\ \A b \in BlocksAssigning(n) : b <= register_driven_by_block[n]
            /\ register_driven_by_block[n] \in BlocksAssigning(n)


RECURSIVE ExpressionNames(_)
\* the names of the Identifier nodes of an expression
ExpressionNames(e) ==
    IF e.k = "Identifier" THEN {e.identifier_name}
    ELSE IF e.k = "Number" THEN {}
    ELSE ExpressionNames(e.left_expression) \cup ExpressionNames(e.right_expression)

\* the names of the Identifier nodes a statement holds itself (those of the
\* statements nested in it apart)
StatementNames(s) ==
    IF s.k = "NonBlockingAssignment"
    THEN ExpressionNames(s.left_hand_side_expression)
         \cup ExpressionNames(s.right_hand_side_expression)
    ELSE IF s.k = "IfStatement" THEN ExpressionNames(s.condition_expression)
    ELSE IF s.k = "CaseStatement"
    THEN ExpressionNames(s.condition_expression)
         \cup UNION {ExpressionNames(s.case_branches[i][1]) :
                        i \in 1..Len(s.case_branches)}
    ELSE {}

\* the names of all the Identifier nodes of the module, and those of its
\* sensitivity entries
ModuleIdentifierNames ==
    UNION {StatementNames(StatementAt(p)) : p \in AllPlaces}
    \cup UNION {ExpressionNames(verilog_module.module_parameters[i].default_value_expression) :
                   i \in 1..Len(verilog_module.module_parameters)}
    \cup UNION {ExpressionNames(verilog_module.module_ports[i].bit_range[1].most_significant_bit)
                \cup ExpressionNames(verilog_module.module_ports[i].bit_range[1].least_significant_bit) :
                   i \in {j \in 1..Len(verilog_module.module_ports) :
                             verilog_module.module_ports[j].bit_range # <<>>}}

\* C26: in every Module returned by parse_module_definition, every
\* Identifier node (in expressions, assignment targets, case selectors, bit
\* ranges, parameter defaults) and every Sensitivity.signal_name has
\* non-empty text; an expression position that holds neither an
\* identifier, a number nor a parenthesised expression never yields an AST
\* node with an empty name.
C26_NamesNonEmpty ==
    verilog_module # NoModule =>
        /\ <<>> \notin ModuleIdentifierNames
        /\ \A b \in 1..Len(verilog_module.module_items) :
           \A i \in 1..Len(verilog_module.module_items[b].sensitivity_list) :
                verilog_module.module_items[b].sensitivity_list[i]
                    .signal_identifier.identifier_name # <<>>

\* the module parsed from y <= ; holds an assignment whose right-hand side
\* is an Identifier with an empty name, and is linted to the end
C26_Witness ==
    /\ source = SourceMissingOperand
    /\ pc = "done"
    /\ \E p \in AllPlaces :
        /\ StatementAt(p).k = "NonBlockingAssignment"
        /\ StatementAt(p).right_hand_side_expression = Identifier(<<>>)

\* the part of C26 the parser keeps: sensitivity names are not empty
C26_SensitivityNames ==
    verilog_module # NoModule =>
        \A b \in 1..Len(verilog_module.module_items) :
        \A i \in 1..Len(verilog_module.module_items[b].sensitivity_list) :
            verilog_module.module_items[b].sensitivity_list[i]
                .signal_identifier.identifier_name # <<>>

====
